---- MODULE Spec2Model ----
(***************************************************************************)
(* Workflow orchestration layer over the upstream websets API: one task of *)
(* the task store, the runtime that settles it, and the workflow functions *)
(* lifecycle.harvest, research.deep and semantic.cron with the shared      *)
(* helpers (validators, isCancelled, pollUntilIdle, collectItems).         *)
(*                                                                         *)
(* A workflow is an async function: every action below is one segment of   *)
(* it, from the completion of the awaited upstream call named by pc up to  *)
(* the next await (or to the return/throw).  tasks.cancel may be applied   *)
(* between any two segments, i.e. while an upstream call is in flight.     *)
(***************************************************************************)
EXTENDS Integers, Sequences, FiniteSets, TLC

\* ---------------------------------------------------------------- bounds
\* most lenses in a semantic.cron config
MaxLenses == 2
\* largest per-step timeout, in poll cadences (one sleep(2000) = one tick)
MaxTimeout == 1

\* ------------------------------------------------------ program constants
HarvestTotal == 4
DeepTotal == 3
CronTotal == 8

Terminal == {"completed", "failed", "cancelled"}

\* composite status of an upstream webset
WebsetStatus == {"pending", "running", "idle", "paused"}

\* values a required argument can take: absent, null, or a string
FieldVals == {"undefined", "null", "str"}

\* values of args.entity
EntityVals == {"undefined", "null", "string", "objNoType", "objType"}

\* atoms of the JSON text of a semantic.cron config: plain text or a token
TokenOf(k) == IF k = "a" THEN "{{a}}" ELSE "{{b}}"

VarKeys == {"a", "b"}

Tokens == {TokenOf(k) : k \in VarKeys}

VARIABLES
  wfType,       \* task.type ("" before tasks.create)
  args,         \* task.args
  status,       \* task.status ("none" before tasks.create)
  statusLog,    \* every value written to task.status, in order
  progress,     \* task.progress
  result,       \* task.result
  error,        \* task.error
  pc,           \* the upstream call the workflow function is suspended on
  ret,          \* what the workflow function returned or threw
  config,       \* semantic.cron: the config that is evaluated
  websetIds,    \* semantic.cron: lens index -> webset id ("" = not set)
  created,      \* ids of the websets this run created upstream, in order
  idx,          \* index of the lens a semantic.cron loop is working on
  toCancel,     \* semantic.cron: ids still to be cancelled by a cancel loop
  timedOut,     \* lifecycle.harvest: timedOut returned by pollUntilIdle
  now,          \* Date.now(), in ticks
  deadline,     \* pollUntilIdle: deadline
  calls,        \* upstream calls invoked so far, in order
  cancelledAt,  \* pc at which tasks.cancel took effect ("" = never)
  createdAtCancel, \* websets this run had created when it took effect
  seen,         \* webset statuses the upstream has answered so far
  pollTimedOut, \* some pollUntilIdle call of this run reached its deadline
  partialResult, \* task.partialResult: webset ids checkpointed so far
  snapshot,     \* semantic.cron: lens results, join result, signal result
  monitorsFailed, \* semantic.cron: lenses whose monitor creation failed
  harvested,    \* lifecycle.harvest: the items collectItems returned
  polled,       \* what the poll's get answered in the last step ("" = no answer)
  fnName,       \* the function of semanticCron.ts applied on its own
  fnIn,         \* its arguments
  fnOut         \* what it returned

\* the task, its workflow run and the upstream
wfVars == <<wfType, args, status, statusLog, progress, result, error, pc, ret,
            config, websetIds, created, idx, toCancel, timedOut, now,
            deadline, calls, cancelledAt, createdAtCancel, seen, pollTimedOut,
            partialResult, snapshot, monitorsFailed, harvested, polled>>

fnVars == <<fnName, fnIn, fnOut>>

vars == <<wfVars, fnVars>>

storeVars == <<status, statusLog, result, error>>

\* ------------------------------------------------------------ values
NoProgress == [step |-> "", completed |-> 0, total |-> 0]

Progress(s, c, t) == [step |-> s, completed |-> c, total |-> t]

\* an optional field of a config: undefined, or a number
None == [given |-> FALSE, v |-> 0]

Some(x) == [given |-> TRUE, v |-> x]

\* o ?? d
OrElse(o, d) == IF o.given THEN o.v ELSE d

\* truthiness of an optional number: undefined and 0 are falsy
Truthy(o) == o.given /\ o.v # 0

\* an optional list of lens-id lists: signal.requires.sufficient, and the
\* matchedCombination of a SignalResult
NoCombo == [given |-> FALSE, v |-> <<>>]

Combos(c) == [given |-> TRUE, v |-> c]

\* signal.requires
Requires(type, min, sufficient) ==
  [type |-> type, min |-> min, sufficient |-> sufficient]

AnyRule == Requires("any", None, NoCombo)

\* a JoinResult and a SignalResult before they are computed
NoJoin == [type |-> "", entities |-> <<>>, lensesWithEvidence |-> {}]

NoSignal == [threw |-> FALSE, msg |-> "", fired |-> FALSE, satisfiedBy |-> {},
             rule |-> "", matchedCombination |-> NoCombo, entities |-> <<>>]

\* semantic.cron: lensResults, joinResult and signalResult of the run
NoSnapshot == [lenses |-> <<>>, join |-> NoJoin, signal |-> NoSignal]

\* outcome of a workflow function; one record shape for every outcome
NoRet == [kind |-> "none", step |-> "", recoverable |-> FALSE, msg |-> "",
          tokens |-> {}, websetIds |-> <<>>, timedOut |-> FALSE,
          items |-> FALSE, itemList |-> <<>>, delta |-> FALSE,
          snapshot |-> NoSnapshot]

RetNull == [NoRet EXCEPT !.kind = "null"]

\* new WorkflowError(message, step, recoverable = false)
WorkflowError(m, s) == [NoRet EXCEPT !.kind = "throw", !.step = s,
                                      !.recoverable = FALSE, !.msg = m]

\* a plain Error (no step, no recoverable field)
PlainError(m) == [NoRet EXCEPT !.kind = "throw", !.step = "", !.msg = m]

NoArgs == [query |-> "undefined", entity |-> "undefined",
           instructions |-> "undefined", timeout |-> 0, cleanup |-> FALSE,
           lenses |-> <<>>, shapes |-> "ok", join |-> TRUE, signal |-> TRUE,
           requires |-> AnyRule,
           text |-> <<>>, variables |-> [given |-> FALSE, entries |-> <<>>],
           monitor |-> FALSE,
           existingWebsets |-> "omitted", previousSnapshot |-> FALSE]

NoConfig == [lenses |-> <<>>, text |-> <<>>, monitor |-> FALSE]

NoId == <<>>

\* id of the k-th webset the upstream creates for this run
NewId(k) == <<"ws", k>>

\* lens.source.websetId of a lens bound to a pre-existing webset
ExtId(i) == <<"ext", i>>

\* existingWebsets[lens.id] of a re-evaluation
OldId(i) == <<"old", i>>

SeqsUpTo(S, n) == UNION {[1..k -> S] : k \in 0..n}

\* -------------------------------------------------------------- inputs
\* longest templated config text, in atoms
MaxTextLen == 2

Atoms == {"t"} \cup Tokens

\* replacement values of template variables (a value may itself hold a token)
VarValues == {<<"t">>, <<"{{b}}">>}

VarEntries == {e \in SeqsUpTo([key : VarKeys, value : VarValues],
                             Cardinality(VarKeys)) :
                 \A i, j \in DOMAIN e : i # j => e[i].key # e[j].key}

\* args.variables: omitted altogether, or a map (Object.entries order)
VarArgs == {[given |-> FALSE, entries |-> <<>>]}
             \cup {[given |-> TRUE, entries |-> e] : e \in VarEntries}

Texts == SeqsUpTo(Atoms, MaxTextLen) \ {<<>>}

HarvestArgs ==
  {[NoArgs EXCEPT !.query = q, !.entity = e, !.timeout = t, !.cleanup = c] :
     q \in FieldVals, e \in EntityVals, t \in 0..MaxTimeout, c \in BOOLEAN}

DeepArgs == {[NoArgs EXCEPT !.instructions = v] : v \in FieldVals}

LensSeqs == SeqsUpTo({"query", "bound"}, MaxLenses)

PlainArgs == [NoArgs EXCEPT !.text = <<"t">>,
                            !.variables = [given |-> FALSE, entries |-> <<>>]]

\* a 'combination' rule over the first lens
ComboRule == Requires("combination", None, Combos(<<<<1>>>>))

\* a 'combination' rule that names a lens id no config declares
BadComboRule == Requires("combination", None, Combos(<<<<1, 0>>>>))

\* well-formed configs, initial runs and re-evaluations
ValidCronArgs ==
  {[PlainArgs EXCEPT !.lenses = l, !.monitor = m, !.timeout = t,
                     !.existingWebsets = x, !.previousSnapshot = s,
                     !.requires = r] :
     l \in LensSeqs \ {<<>>}, m \in BOOLEAN, t \in 0..MaxTimeout,
     x \in {"omitted", "complete"}, s \in BOOLEAN,
     r \in {AnyRule, ComboRule}}

\* configs whose signal.requires.sufficient names an undeclared lens
BadSignalCronArgs ==
  {[PlainArgs EXCEPT !.lenses = l, !.existingWebsets = x,
                     !.requires = BadComboRule] :
     l \in LensSeqs \ {<<>>}, x \in {"omitted", "complete"}}

\* configs with one schema defect
InvalidCronArgs ==
  LET base == [PlainArgs EXCEPT !.lenses = <<"query">>] IN
  {[base EXCEPT !.lenses = <<>>], [base EXCEPT !.shapes = "none"],
   [base EXCEPT !.shapes = "unknownLens"], [base EXCEPT !.join = FALSE],
   [base EXCEPT !.signal = FALSE],
   [base EXCEPT !.existingWebsets = "partial"],
   [base EXCEPT !.lenses = <<"query", "query">>,
                !.existingWebsets = "partial"]}

\* configs whose text carries {{...}} tokens, with every variables argument
TemplatedCronArgs ==
  {[PlainArgs EXCEPT !.lenses = <<"query">>, !.text = x, !.variables = v] :
     x \in Texts, v \in VarArgs}

CronArgs == ValidCronArgs \cup InvalidCronArgs \cup TemplatedCronArgs
              \cup BadSignalCronArgs

ArgsFor(t) == IF t = "lifecycle.harvest" THEN HarvestArgs
              ELSE IF t = "research.deep" THEN DeepArgs ELSE CronArgs

WorkflowTypes == {"lifecycle.harvest", "research.deep", "semantic.cron"}

\* ------------------------------------------------------------ helpers.ts
\* validateRequired: passes unless the field is undefined or null
validateRequired(a, field) == a[field] \notin {"undefined", "null"}

\* validateEntity: passes for an object that has a 'type' key
validateEntity(entity) == entity = "objType"

\* isCancelled(taskId, store)
isCancelled == status = "cancelled"

\* collectItems(exa, websetId, cap = 1000)
DefaultCap == 1000

\* the `for await` loop of collectItems over the listing `stream`, `taken`
\* items consumed so far: the next item is pushed, then the cap is tested
RECURSIVE collectLoop(_, _, _, _)
collectLoop(stream, cap, items, taken) ==
  IF taken = Len(stream) THEN [items |-> items, consumed |-> taken]
  ELSE LET pushed == Append(items, stream[taken + 1]) IN
       IF Len(pushed) >= cap
         THEN [items |-> pushed, consumed |-> taken + 1]
         ELSE collectLoop(stream, cap, pushed, taken + 1)

\* collectItems: the items returned and how many the listing was asked for
collectItems(stream, cap) ==
  collectLoop(stream, OrElse(cap, DefaultCap), <<>>, 0)

\* ----------------------------------------------------- template expander
RECURSIVE ReplaceAll(_, _, _)
\* String.replaceAll(token, value) on the text
ReplaceAll(text, token, value) ==
  IF text = <<>> THEN <<>>
  ELSE (IF Head(text) = token THEN value ELSE <<Head(text)>>)
         \o ReplaceAll(Tail(text), token, value)

RECURSIVE Substitute(_, _)
\* the for-loop over Object.entries(variables)
Substitute(text, entries) ==
  IF entries = <<>> THEN text
  ELSE Substitute(ReplaceAll(text, TokenOf(Head(entries).key),
                             Head(entries).value), Tail(entries))

\* expanded.match(/\{\{[^}]+\}\}/g), as the set the message lists
Unresolved(text) == {text[i] : i \in DOMAIN text} \cap Tokens

\* expandTemplates: the expanded text, and the tokens it throws on
expandTemplates(text, entries) ==
  LET expanded == Substitute(text, entries) IN
  [text |-> expanded, unresolved |-> Unresolved(expanded)]

\* ------------------------------------------------------------ join engine
\* joinConfig.entityMatch?.nameThreshold ?? 0.85, in hundredths
DefaultNameThreshold == 85

\* joinConfig.minLensOverlap ?? 2
DefaultMinLensOverlap == 2

\* Dice bigram coefficient of two names, in hundredths
diceCoefficient(a, b) ==
  IF a = b THEN 100
  ELSE IF {a, b} = {"Acme", "Acme Inc"} THEN 60
  ELSE 0

Range(q) == {q[i] : i \in DOMAIN q}

\* variant of SetAdd that behaves as Array.push
ArrayPush(members, x) == Append(members, x)

\* Set.add on a Set kept as its insertion-ordered sequence of members
SetAdd(members, x) ==
  IF x \in Range(members) THEN members ELSE Append(members, x)

SetMin(S) == CHOOSE x \in S : \A y \in S : x <= y

Abs(n) == IF n < 0 THEN -n ELSE n

\* the shaped items of all lens results, in walking order
RECURSIVE FlattenLenses(_)
FlattenLenses(lrs) ==
  IF lrs = <<>> THEN <<>>
  ELSE LET lr == Head(lrs) IN
       [i \in 1..Len(lr.shapedItems) |->
          [lensId |-> lr.lensId, si |-> lr.shapedItems[i]]]
         \o FlattenLenses(Tail(lrs))

\* an existing entry takes the item: exact URL, else fuzzy name
EntryMatches(existing, si, threshold) ==
  \/ si.url # "" /\ existing.url # "" /\ si.url = existing.url
  \/ /\ si.name # "" /\ existing.entity # ""
     /\ diceCoefficient(si.name, existing.entity) > threshold

\* entityMap after one shaped item: folded into the first entry that takes
\* it, else set under its key (a Map keeps the position of an existing key)
EntityMapAdd(map, lensId, si, threshold) ==
  LET hits == {k \in DOMAIN map : EntryMatches(map[k], si, threshold)}
      stamp == [lensId |-> lensId, createdAt |-> si.createdAt]
  IN
  IF hits # {}
    THEN LET k == SetMin(hits) IN
         [map EXCEPT ![k].lenses = SetAdd(@, lensId),
                     ![k].timestamps = Append(@, stamp)]
  ELSE LET key == IF si.url # "" THEN si.url
                  ELSE IF si.name # "" THEN si.name ELSE si.id
           entry == [key |-> key, entity |-> si.name, url |-> si.url,
                     lenses |-> <<lensId>>, timestamps |-> <<stamp>>]
           same == {k \in DOMAIN map : map[k].key = key}
       IN IF same # {} THEN [map EXCEPT ![SetMin(same)] = entry]
          ELSE Append(map, entry)

RECURSIVE EntityMapOf(_, _, _)
EntityMapOf(items, map, threshold) ==
  IF items = <<>> THEN map
  ELSE EntityMapOf(Tail(items),
                   EntityMapAdd(map, Head(items).lensId, Head(items).si,
                                threshold),
                   threshold)

\* two timestamps of different lenses lie within the window (in days)
WithinWindow(ts, days) ==
  \E i, j \in DOMAIN ts :
    /\ i < j /\ ts[i].lensId # ts[j].lensId
    /\ Abs(ts[i].createdAt - ts[j].createdAt) <= days

\* the entries of entityMap that joinLensResults returns as entities
JoinedEntries(lensResults, joinConfig) ==
  LET threshold == OrElse(joinConfig.nameThreshold, DefaultNameThreshold)
      minOverlap == OrElse(joinConfig.minLensOverlap, DefaultMinLensOverlap)
      temporalDays == joinConfig.days
      map == EntityMapOf(FlattenLenses(lensResults), <<>>, threshold)
      \* [...entityMap.values()].find(e => same entity and url)
      found(e) == map[SetMin({k \in DOMAIN map :
                                /\ map[k].entity = e.entity
                                /\ map[k].url = e.url})]
      inWindow(e) ==
        IF joinConfig.by = "entity+temporal" /\ Truthy(temporalDays)
          THEN WithinWindow(found(e).timestamps, temporalDays.v)
          ELSE TRUE
  IN SelectSeq(SelectSeq(map, inWindow),
               LAMBDA e : Len(e.lenses) >= minOverlap)

\* a JoinedEntity of the result
JoinedEntity(e) == [entity |-> e.entity, url |-> e.url,
                    presentInLenses |-> e.lenses,
                    lensCount |-> Len(e.lenses)]

\* joinLensResults for by = 'entity' and by = 'entity+temporal'
\* (lensesWithEvidence is kept as the set of its members)
joinLensResults(lensResults, joinConfig) ==
  LET es == JoinedEntries(lensResults, joinConfig) IN
  [type |-> joinConfig.by,
   entities |-> [k \in DOMAIN es |-> JoinedEntity(es[k])],
   lensesWithEvidence |-> UNION {Range(es[k].lenses) : k \in DOMAIN es}]

\* -------------------------------------------------------- signal evaluator
\* min ?? 2 of a 'threshold' rule
DefaultMin == 2

\* a SignalResult (satisfiedBy is kept as the set of its members)
SignalResult(fired, satisfiedBy, rule, matched, entities) ==
  [threw |-> FALSE, msg |-> "", fired |-> fired, satisfiedBy |-> satisfiedBy,
   rule |-> rule, matchedCombination |-> matched, entities |-> entities]

\* evaluateSignal throwing new WorkflowError(msg, 'validate')
SignalError(m) ==
  [threw |-> TRUE, msg |-> m, fired |-> FALSE, satisfiedBy |-> {},
   rule |-> "", matchedCombination |-> NoCombo, entities |-> <<>>]

\* combo.every(lensId => members.includes(lensId))
Covers(members, combo) == Range(combo) \subseteq members

\* variant of FirstCombo that takes the last listed combo that matched
LastCombo(hits) ==
  IF hits = {} THEN 0 ELSE CHOOSE k \in hits : \A m \in hits : m <= k

\* index of the first listed combo among the matching ones (hits), 0 when
\* there is none: the loop over sufficient breaks at its first match
FirstCombo(hits) ==
  IF hits = {} THEN 0 ELSE SetMin(hits)

evaluateSignalWithEntities(joinResult, signalConfig, allLensIds) ==
  LET type == signalConfig.type
      es == joinResult.entities
      sufficient == signalConfig.sufficient.v
      covering(combo) ==
        SelectSeq(es, LAMBDA e : Covers(Range(e.presentInLenses), combo))
      first == FirstCombo({k \in DOMAIN sufficient :
                            covering(sufficient[k]) # <<>>})
      matchingEntities ==
        IF type = "all"
          THEN SelectSeq(es, LAMBDA e :
                 Range(allLensIds) \subseteq Range(e.presentInLenses))
        ELSE IF type = "any" THEN es
        ELSE IF type = "threshold"
          THEN SelectSeq(es, LAMBDA e :
                 e.lensCount >= OrElse(signalConfig.min, DefaultMin))
        ELSE IF first = 0 THEN <<>> ELSE covering(sufficient[first])
      matched == IF type = "combination" /\ first # 0
                   THEN [given |-> TRUE, v |-> sufficient[first]]
                   ELSE NoCombo
  IN SignalResult(matchingEntities # <<>>,
                  UNION {Range(matchingEntities[k].presentInLenses) :
                           k \in DOMAIN matchingEntities},
                  type, matched,
                  [k \in DOMAIN matchingEntities |->
                     matchingEntities[k].entity])

evaluateSignalWithEvidence(joinResult, signalConfig, allLensIds) ==
  LET type == signalConfig.type
      evidence == joinResult.lensesWithEvidence
      sufficient == signalConfig.sufficient.v
      first == FirstCombo({k \in DOMAIN sufficient :
                            Covers(evidence, sufficient[k])})
      fired ==
        IF type = "all" THEN Range(allLensIds) \subseteq evidence
        ELSE IF type = "any" THEN Cardinality(evidence) > 0
        ELSE IF type = "threshold"
          THEN Cardinality(evidence) >= OrElse(signalConfig.min, DefaultMin)
        ELSE first # 0
      matched == IF type = "combination" /\ first # 0
                   THEN [given |-> TRUE, v |-> sufficient[first]]
                   ELSE NoCombo
  IN SignalResult(fired, evidence, type, matched, <<>>)

\* evaluateSignal: the lens ids of a 'combination' rule are validated, then
\* the rule is applied to the entities if there are any, else to the evidence
evaluateSignal(joinResult, signalConfig, allLensIds) ==
  LET combos == signalConfig.sufficient IN
  IF signalConfig.type = "combination"
       /\ (~combos.given \/ combos.v = <<>>)
    THEN SignalError("signal.requires.sufficient must be provided")
  ELSE IF signalConfig.type = "combination"
            /\ \E k \in DOMAIN combos.v :
                 ~(Range(combos.v[k]) \subseteq Range(allLensIds))
    THEN SignalError("Unknown lens ID in signal.requires.sufficient")
  ELSE IF joinResult.entities # <<>>
    THEN evaluateSignalWithEntities(joinResult, signalConfig, allLensIds)
    ELSE evaluateSignalWithEvidence(joinResult, signalConfig, allLensIds)

\* ----------------------------------------------------------- delta computer
\* [...new Set(values)]: the distinct values in order of first occurrence
RECURSIVE Distinct(_)
Distinct(values) ==
  IF values = <<>> THEN <<>>
  ELSE LET front == Distinct(SubSeq(values, 1, Len(values) - 1))
       IN SetAdd(front, values[Len(values)])

\* variant of EntityKey that prefers the name: e.entity || e.url
EntityKeyNameFirst(e) == IF e.entity # "" THEN e.entity ELSE e.url

\* e.url || e.entity
EntityKey(e) == IF e.url # "" THEN e.url ELSE e.entity

\* the keys of the joined entities of a snapshot
EntityKeys(snap) ==
  Distinct([k \in DOMAIN snap.join.entities |->
              EntityKey(snap.join.entities[k])])

\* variant of signalTransition that compares the snapshots the other way
signalTransitionSwapped(current, previous) ==
  LET currentEntityNames == Distinct(current.signal.entities)
      previousEntityNames == Distinct(previous.signal.entities)
  IN [was |-> current.signal.fired,
      now |-> previous.signal.fired,
      changed |-> previous.signal.fired # current.signal.fired,
      newEntities |-> SelectSeq(previousEntityNames,
                        LAMBDA n : n \notin Range(currentEntityNames)),
      lostEntities |-> SelectSeq(currentEntityNames,
                         LAMBDA n : n \notin Range(previousEntityNames))]

\* the signalTransition of computeDelta: fired bits and entity names compared
signalTransition(current, previous) ==
  LET currentEntityNames == Distinct(current.signal.entities)
      previousEntityNames == Distinct(previous.signal.entities)
  IN [was |-> previous.signal.fired,
      now |-> current.signal.fired,
      changed |-> previous.signal.fired # current.signal.fired,
      newEntities |-> SelectSeq(currentEntityNames,
                        LAMBDA n : n \notin Range(previousEntityNames)),
      lostEntities |-> SelectSeq(previousEntityNames,
                         LAMBDA n : n \notin Range(currentEntityNames))]

\* computeDelta: the joins that appeared and the joins that went away, and
\* the signal transition
computeDelta(current, previous) ==
  LET currentEntityKeys == EntityKeys(current)
      previousEntityKeys == EntityKeys(previous)
  IN [newJoins |-> SelectSeq(currentEntityKeys,
                     LAMBDA k : k \notin Range(previousEntityKeys)),
      lostJoins |-> SelectSeq(previousEntityKeys,
                      LAMBDA k : k \notin Range(currentEntityKeys)),
      signalTransition |-> signalTransition(current, previous)]

\* parts.join(' ')
RECURSIVE JoinParts(_)
JoinParts(parts) ==
  IF parts = <<>> THEN ""
  ELSE IF Len(parts) = 1 THEN parts[1]
  ELSE parts[1] \o " " \o JoinParts(Tail(parts))

\* variant of formatDuration whose hours are not reduced modulo a day
formatDurationWholeHours(ms) ==
  LET totalMinutes == ms \div 60000
      days == totalMinutes \div 1440
      hours == totalMinutes \div 60
      minutes == totalMinutes % 60
      p1 == IF days > 0 THEN <<ToString(days) \o "d">> ELSE <<>>
      p2 == IF hours > 0 THEN Append(p1, ToString(hours) \o "h") ELSE p1
      p3 == IF minutes > 0 \/ Len(p2) = 0
              THEN Append(p2, ToString(minutes) \o "m") ELSE p2
  IN JoinParts(p3)

\* formatDuration(ms), ms >= 0
formatDuration(ms) ==
  LET totalMinutes == ms \div 60000
      days == totalMinutes \div 1440
      hours == (totalMinutes % 1440) \div 60
      minutes == totalMinutes % 60
      p1 == IF days > 0 THEN <<ToString(days) \o "d">> ELSE <<>>
      p2 == IF hours > 0 THEN Append(p1, ToString(hours) \o "h") ELSE p1
      p3 == IF minutes > 0 \/ Len(p2) = 0
              THEN Append(p2, ToString(minutes) \o "m") ELSE p2
  IN JoinParts(p3)

\* ------------------------------------------------------------- projections
\* an optional string that is missing, and an optional list that is missing
NoStr == [given |-> FALSE, v |-> ""]

NoList == [given |-> FALSE, v |-> <<>>]

\* the properties bag in which every field is missing
NoProps == [companyName |-> NoStr, personName |-> NoStr,
            articleTitle |-> NoStr, researchPaperTitle |-> NoStr,
            customTitle |-> NoStr, description |-> NoStr, url |-> NoStr,
            type |-> NoStr, content |-> ""]

\* item.properties, undefined when the object has no such field
PropertiesOf(item) ==
  IF "properties" \in DOMAIN item THEN item.properties
  ELSE [given |-> FALSE, v |-> NoProps]

\* the first of the optional values that is neither null nor undefined
RECURSIVE Coalesce(_, _)
Coalesce(options, default) ==
  IF options = <<>> THEN default
  ELSE IF Head(options).given THEN Head(options).v
  ELSE Coalesce(Tail(options), default)

\* extractItemFields: name, url, entityType and description of the
\* properties bag, fixed values when the item has none
extractItemFields(item) ==
  LET props == PropertiesOf(item) IN
  IF ~props.given
    THEN [name |-> "unknown", url |-> "", entityType |-> "unknown",
          description |-> ""]
    ELSE [name |-> Coalesce(<<props.v.companyName, props.v.personName,
                              props.v.articleTitle,
                              props.v.researchPaperTitle,
                              props.v.customTitle, props.v.description>>,
                            "unknown"),
          url |-> OrElse(props.v.url, ""),
          entityType |-> OrElse(props.v.type, "unknown"),
          description |-> OrElse(props.v.description, "")]

\* variant of hasSatisfiedEvaluation in which an empty evaluations list fails
hasSatisfiedEvaluationStrict(item) ==
  IF ~item.evaluations.given THEN TRUE
  ELSE \E k \in DOMAIN item.evaluations.v :
         item.evaluations.v[k].satisfied = "yes"

\* hasSatisfiedEvaluation: no evaluations, or one that says 'yes'
hasSatisfiedEvaluation(item) ==
  IF ~item.evaluations.given \/ item.evaluations.v = <<>> THEN TRUE
  ELSE \E k \in DOMAIN item.evaluations.v :
         item.evaluations.v[k].satisfied = "yes"

\* evaluations?.map(e => ({criterion, satisfied})) ?? null
projectedEvals(list) ==
  IF list.given
    THEN [given |-> TRUE,
          v |-> [k \in DOMAIN list.v |->
                   [criterion |-> list.v[k].criterion,
                    satisfied |-> list.v[k].satisfied]]]
    ELSE NoList

\* enrichments?.map(e => ({description, format, result})) ?? null
projectedEnrichments(list) ==
  IF list.given
    THEN [given |-> TRUE,
          v |-> [k \in DOMAIN list.v |->
                   [description |-> list.v[k].description,
                    format |-> list.v[k].format,
                    result |-> list.v[k].result]]]
    ELSE NoList

\* variant of projectItem that keeps the reasoning of every evaluation
projectItemKeepingReasoning(item) ==
  LET fields == extractItemFields(item) IN
  [id |-> item.id,
   name |-> fields.name,
   url |-> fields.url,
   entityType |-> fields.entityType,
   description |-> fields.description,
   evaluations |->
     IF item.evaluations.given
       THEN [given |-> TRUE,
             v |-> [k \in DOMAIN item.evaluations.v |->
                      [criterion |-> item.evaluations.v[k].criterion,
                       satisfied |-> item.evaluations.v[k].satisfied,
                       reasoning |-> item.evaluations.v[k].reasoning]]]
       ELSE NoList,
   enrichments |-> projectedEnrichments(item.enrichments)]

\* projectItem: the identity fields and the trimmed evaluations and
\* enrichments of an item
projectItem(item) ==
  LET fields == extractItemFields(item) IN
  [id |-> item.id,
   name |-> fields.name,
   url |-> fields.url,
   entityType |-> fields.entityType,
   description |-> fields.description,
   evaluations |-> projectedEvals(item.evaluations),
   enrichments |-> projectedEnrichments(item.enrichments)]

\* filterAndProjectItems: the passing items projected, and the counts
filterAndProjectItems(items) ==
  LET passing == SelectSeq(items, hasSatisfiedEvaluation)
      data == [k \in DOMAIN passing |-> projectItem(passing[k])]
  IN [data |-> data, total |-> Len(items), included |-> Len(data),
      excluded |-> Len(items) - Len(data)]

\* --------------------------------------------------------- shape evaluator
\* the strings an enrichment result or a condition value is drawn from: the
\* empty string, two numerals, a word in two spellings, an ISO date
Strings == {"", "3", "8", "acme", "Acme", "2024-01-05"}

\* the day Date.now() falls on, counted from 2024-01-00
NowDay == 10

\* Number(raw): the empty string converts to 0, a numeral to its value, and
\* every other string to NaN (None)
NumberOf(raw) ==
  IF raw = "" THEN Some(0)
  ELSE IF raw = "3" THEN Some(3)
  ELSE IF raw = "8" THEN Some(8)
  ELSE None

\* raw.toLowerCase()
toLowerCase(raw) == IF raw \in {"Acme", "ACME"} THEN "acme" ELSE raw

\* a.includes(b): every string includes the empty string and itself, and no
\* string of Strings is a proper part of another one
includes(a, b) == b = "" \/ a = b

\* new RegExp(pattern).test(raw) for the patterns of Strings, none of which
\* has a metacharacter: the pattern occurs in raw
RegExpTest(pattern, raw) == includes(raw, pattern)

\* new Date(raw).getTime() in days: the ISO date is its day, a bare numeral
\* is read by the engine as a month of 2001, and the empty string and words
\* give NaN (None)
DateOf(raw) ==
  IF raw = "2024-01-05" THEN Some(5)
  ELSE IF raw \in {"3", "8"} THEN Some(-8000)
  ELSE None

\* a condition value: a number, a string or a list of strings
NumValue(n) == [num |-> n, str |-> "", list |-> <<>>]

StrValue(s) == [num |-> 0, str |-> s, list |-> <<>>]

ListValue(l) == [num |-> 0, str |-> "", list |-> l]

Condition(enrichment, operator, value) ==
  [enrichment |-> enrichment, operator |-> operator, value |-> value]

\* evaluateCondition: one condition against the result of its enrichment
evaluateCondition(condition, enrichmentResult) ==
  LET op == condition.operator
      raw == enrichmentResult.v[1]
      num == NumberOf(raw)
      target == condition.value.num
      parsed == DateOf(raw)
  IN
  IF op = "exists"
    THEN /\ enrichmentResult.given
         /\ Len(enrichmentResult.v) > 0
         /\ enrichmentResult.v[1] # ""
  ELSE IF ~enrichmentResult.given \/ Len(enrichmentResult.v) = 0 THEN FALSE
  ELSE IF op \in {"gte", "gt", "lte", "lt", "eq"}
    THEN IF ~num.given THEN FALSE
         ELSE IF op = "gte" THEN num.v >= target
         ELSE IF op = "gt" THEN num.v > target
         ELSE IF op = "lte" THEN num.v <= target
         ELSE IF op = "lt" THEN num.v < target
         ELSE num.v = target
  ELSE IF op = "contains"
    THEN includes(toLowerCase(raw), toLowerCase(condition.value.str))
  ELSE IF op = "matches" THEN RegExpTest(condition.value.str, raw)
  ELSE IF op = "oneOf"
    THEN \E k \in DOMAIN condition.value.list :
           toLowerCase(condition.value.list[k]) = toLowerCase(raw)
  ELSE IF op = "withinDays"
    THEN IF ~parsed.given THEN FALSE
         ELSE Abs(NowDay - parsed.v) <= condition.value.num
  ELSE FALSE

\* variant of evaluateShape in which every logic means 'any'
evaluateShapeAlwaysAny(shape, enrichments) ==
  LET match(cond) ==
        SelectSeq(enrichments, LAMBDA e : e.description = cond.enrichment)
      holds(cond) ==
        evaluateCondition(cond, IF match(cond) = <<>> THEN NoList
                                ELSE match(cond)[1].result)
  IN \E k \in DOMAIN shape.conditions : holds(shape.conditions[k])

\* evaluateShape: each condition is evaluated against the first enrichment
\* with its description (null when there is none); 'all' wants every
\* condition to hold, any other logic at least one
evaluateShape(shape, enrichments) ==
  LET match(cond) ==
        SelectSeq(enrichments, LAMBDA e : e.description = cond.enrichment)
      holds(cond) ==
        evaluateCondition(cond, IF match(cond) = <<>> THEN NoList
                                ELSE match(cond)[1].result)
  IN IF shape.logic = "all"
       THEN \A k \in DOMAIN shape.conditions : holds(shape.conditions[k])
       ELSE \E k \in DOMAIN shape.conditions : holds(shape.conditions[k])

\* resolveEnrichmentDescriptions for one item: the enrichments whose
\* enrichmentId the map knows, under the description the map gives them
resolveEnrichmentDescriptions(item, enrichmentMap) ==
  IF ~item.enrichments.given THEN <<>>
  ELSE LET known == SelectSeq(item.enrichments.v,
                      LAMBDA e : /\ e.enrichmentId \in DOMAIN enrichmentMap
                                 /\ enrichmentMap[e.enrichmentId] # "")
       IN [k \in DOMAIN known |->
             [description |-> enrichmentMap[known[k].enrichmentId],
              result |-> known[k].result, format |-> known[k].format]]

\* the pre-filter of the collect step: no evaluations, or one that says 'yes'
PassesPreFilter(item) ==
  IF ~item.evaluations.given \/ item.evaluations.v = <<>> THEN TRUE
  ELSE \E k \in DOMAIN item.evaluations.v :
         item.evaluations.v[k].satisfied = "yes"

\* the shaped item pushed for a raw item that passes
ShapedItem(item) ==
  LET projected == projectItem(item)
  IN [id |-> item.id, name |-> projected.name, url |-> projected.url,
      entityType |-> projected.entityType, createdAt |-> item.createdAt]

\* the collect step for one lens: the raw items are pre-filtered, their
\* enrichments resolved, and those that pass a shape of the lens (or all of
\* them when the lens has no shape) become shaped items
shapedItemsOfLens(rawItems, shapes, lensId, enrichmentMap) ==
  LET passingItems == SelectSeq(rawItems, PassesPreFilter)
      shapesForLens == SelectSeq(shapes, LAMBDA s : s.lensId = lensId)
      passes(item) ==
        \/ Len(shapesForLens) = 0
        \/ \E k \in DOMAIN shapesForLens :
             evaluateShape(shapesForLens[k],
                           resolveEnrichmentDescriptions(item, enrichmentMap))
      shaped == SelectSeq(passingItems, passes)
  IN [k \in DOMAIN shaped |-> ShapedItem(shaped[k])]

\* ---------------------------------------------------------------- qd.winnow
\* the classified items in order of fitnessScore, highest first; items of
\* equal fitness keep their order
RECURSIVE SortByFitnessDesc(_)
SortByFitnessDesc(items) ==
  IF items = <<>> THEN <<>>
  ELSE LET front == SortByFitnessDesc(SubSeq(items, 1, Len(items) - 1))
           last == items[Len(items)]
           before == SelectSeq(front,
                       LAMBDA c : c.fitnessScore >= last.fitnessScore)
           after == SelectSeq(front,
                      LAMBDA c : c.fitnessScore < last.fitnessScore)
       IN before \o <<last>> \o after

\* the niches that hold an item, in order of first occurrence
PopulatedNiches(classified) ==
  Distinct([k \in DOMAIN classified |-> classified[k].niche])

\* variant of BestOfNiche that takes the first item of the niche
FirstOfNiche(classified, niche) ==
  LET members == SelectSeq(classified, LAMBDA c : c.niche = niche)
  IN members[1]

\* the first of the items of a niche whose fitnessScore none exceeds
BestOfNiche(classified, niche) ==
  LET members == SelectSeq(classified, LAMBDA c : c.niche = niche)
      best == SetMin({k \in DOMAIN members :
                        \A j \in DOMAIN members :
                          members[j].fitnessScore <= members[k].fitnessScore})
  IN members[best]

\* selectElites: 'diverse' keeps the best item of every populated niche,
\* 'all-criteria' the items whose vector is all true, 'any-criteria' the
\* items whose vector is not all false; each ordered by fitness, highest first
selectElites(classified, strategy) ==
  IF strategy = "diverse"
    THEN LET niches == PopulatedNiches(classified)
         IN SortByFitnessDesc([k \in DOMAIN niches |->
                                 BestOfNiche(classified, niches[k])])
  ELSE IF strategy = "all-criteria"
    THEN SortByFitnessDesc(SelectSeq(classified,
           LAMBDA c : \A i \in DOMAIN c.niche : c.niche[i]))
  ELSE SortByFitnessDesc(SelectSeq(classified,
         LAMBDA c : \E i \in DOMAIN c.niche : c.niche[i]))

\* ------------------------------------------------ task store and runtime
\* variant of StoreCancel without the liveness test: any task is cancelled
StoreCancelAnyStatus ==
  /\ status' = "cancelled"
  /\ statusLog' = Append(statusLog, "cancelled")
  /\ cancelledAt' = pc
  /\ createdAtCancel' = created
  /\ UNCHANGED <<result, error>>

\* TaskStore.cancel: a live task becomes cancelled, otherwise nothing
StoreCancel ==
  IF status \in {"pending", "working"}
    THEN /\ status' = "cancelled"
         /\ statusLog' = Append(statusLog, "cancelled")
         /\ cancelledAt' = pc
         /\ createdAtCancel' = created
         /\ UNCHANGED <<result, error>>
    ELSE UNCHANGED <<status, statusLog, result, error, cancelledAt,
                     createdAtCancel>>

\* variant of Settle that records the outcome whatever the task's status
SettleUnguarded(r) ==
  IF r.kind = "throw"
    THEN /\ status' = "failed"
         /\ statusLog' = Append(statusLog, "failed")
         /\ error' = r
         /\ result' = result
    ELSE /\ status' = "completed"
         /\ statusLog' = Append(statusLog, "completed")
         /\ result' = r
         /\ error' = error

\* the runtime's handling of the settled workflow promise: a thrown error
\* becomes a failed record (setError), a returned value a completed record
\* (setResult); a task that is already terminal is left as it is
Settle(r) ==
  IF status \in Terminal
    THEN UNCHANGED storeVars
    ELSE IF r.kind = "throw"
      THEN /\ status' = "failed"
           /\ statusLog' = Append(statusLog, "failed")
           /\ error' = r
           /\ result' = result
      ELSE /\ status' = "completed"
           /\ statusLog' = Append(statusLog, "completed")
           /\ result' = r
           /\ error' = error

\* ------------------------------------------------- ends of a code segment
\* the workflow function returns or throws r; p is task.progress by then
Return(r, p) ==
  /\ pc' = "done"
  /\ ret' = r
  /\ Settle(r)
  /\ progress' = p
  /\ UNCHANGED <<calls, idx, deadline, toCancel>>

\* the workflow function invokes upstream call op on webset id and suspends
Await(label, op, id, p, i, d, tc) ==
  /\ pc' = label
  /\ calls' = Append(calls, [op |-> op, id |-> id])
  /\ progress' = p
  /\ idx' = i
  /\ deadline' = d
  /\ toCancel' = tc
  /\ UNCHANGED <<ret, storeVars>>

\* await sleep(2000) inside pollUntilIdle
Sleep(p) ==
  /\ pc' = "p_sleep"
  /\ progress' = p
  /\ UNCHANGED <<calls, idx, deadline, toCancel, ret, storeVars>>

\* an awaited upstream call rejects and nothing catches it
UpstreamError == PlainError("upstream")

\* -------------------------------------------------------- pollUntilIdle
\* entry of pollUntilIdle: the deadline is fixed and the first get is sent
PollStart(id, p, i) == Await("p_get", "websets.get", id, p, i,
                             now + args.timeout, <<>>)

\* the webset a running pollUntilIdle polls
PolledId == IF wfType = "lifecycle.harvest" THEN created[1]
            ELSE websetIds[idx]

\* variant of TotalSteps in which every poll is told the total of
\* lifecycle.harvest
TotalStepsOfHarvest == HarvestTotal

\* opts.totalSteps
TotalSteps == IF wfType = "lifecycle.harvest" THEN HarvestTotal
              ELSE CronTotal

\* ------------------------------------------------------ lifecycle.harvest
\* variant of HarvestStart that does not validate args.entity
HarvestStartNoEntityCheck ==
  IF ~validateRequired(args, "query")
    THEN Return(WorkflowError("query is required", "validate"), progress)
  ELSE IF isCancelled THEN Return(RetNull, progress)
  ELSE Await("h_create", "websets.create", NoId,
             Progress("creating", 1, HarvestTotal), idx, deadline, toCancel)

\* validate, first cancellation check, websets.create is sent
HarvestStart ==
  IF ~validateRequired(args, "query")
    THEN Return(WorkflowError("query is required", "validate"), progress)
  ELSE IF ~validateEntity(args.entity)
    THEN Return(WorkflowError("entity must be an object", "validate"),
                progress)
  ELSE IF isCancelled THEN Return(RetNull, progress)
  ELSE Await("h_create", "websets.create", NoId,
             Progress("creating", 1, HarvestTotal), idx, deadline, toCancel)

\* after create: cancellation check with upstream cancel, else the poll
HarvestAfterCreate(id) ==
  IF isCancelled
    THEN Await("h_cancel", "websets.cancel", id, progress, idx, deadline,
               toCancel)
    ELSE PollStart(id, Progress("polling", 2, HarvestTotal), idx)

\* variant of HarvestAfterPoll without the cancellation check
HarvestAfterPollNoCheck ==
  Await("h_collect", "items.listAll", created[1],
        Progress("collecting", 3, HarvestTotal), idx, deadline, toCancel)

\* after pollUntilIdle returned: cancellation check, then collectItems
HarvestAfterPoll ==
  IF isCancelled THEN Return(RetNull, progress)
  ELSE Await("h_collect", "items.listAll", created[1],
             Progress("collecting", 3, HarvestTotal), idx, deadline, toCancel)

\* what collectItems hands back: no item, or one raw item of the upstream
CollectedItems ==
  {<<>>,
   <<[id |-> "i1",
      properties |-> [given |-> TRUE,
                      v |-> [NoProps EXCEPT !.companyName = Some("Acme"),
                                            !.url = Some("u1"),
                                            !.content = "text"]],
      evaluations |-> Some(<<[criterion |-> "c", satisfied |-> "yes",
                              reasoning |-> "why", references |-> "ref"]>>),
      enrichments |-> NoList,
      websetId |-> "ws", sourceId |-> "s", createdAt |-> "t",
      updatedAt |-> "t"]>>}

\* the result object, items being what collectItems returned; timedOut is
\* set only when the poll timed out
HarvestResult(items) ==
  [NoRet EXCEPT !.kind = "value", !.websetIds = <<created[1]>>,
                !.items = TRUE, !.itemList = items, !.timedOut = timedOut]

HarvestFinish(items) ==
  Return(HarvestResult(items), Progress("complete", 4, HarvestTotal))

\* after collectItems: optional best-effort delete, then the result
HarvestAfterCollect(items) ==
  IF args.cleanup
    THEN Await("h_delete", "websets.delete", created[1], progress, idx,
               deadline, toCancel)
    ELSE HarvestFinish(items)

\* ---------------------------------------------------------- semantic.cron
isReeval == args.existingWebsets # "omitted"

\* Object.values(websetIds)
Values(ws) == SelectSeq(ws, LAMBDA x : x # NoId)

\* the synchronous validation at the head of semanticCronWorkflow
CronValidate ==
  LET exp == expandTemplates(args.text, args.variables.entries)
      bad(m) == [ok |-> FALSE, err |-> WorkflowError(m, "validate"),
                 cfg |-> NoConfig]
  IN
  IF Len(args.lenses) = 0 THEN bad("config.lenses is required")
  ELSE IF args.shapes = "none" THEN bad("config.shapes is required")
  ELSE IF ~args.join THEN bad("config.join is required")
  ELSE IF ~args.signal THEN bad("config.signal is required")
  ELSE IF args.variables.given /\ exp.unresolved # {}
    THEN [ok |-> FALSE,
          err |-> [WorkflowError("Unresolved template variables", "validate")
                     EXCEPT !.tokens = exp.unresolved],
          cfg |-> NoConfig]
  ELSE IF args.shapes = "unknownLens"
    THEN bad("Shape references unknown lens")
  ELSE [ok |-> TRUE, err |-> NoRet,
        cfg |-> [lenses |-> args.lenses,
                 text |-> IF args.variables.given THEN exp.text
                          ELSE args.text,
                 monitor |-> args.monitor]]

\* a cancel loop over ids: send the next cancel, or return null when done
CancelAll(ids, p) ==
  IF ids = <<>> THEN Return(RetNull, p)
  ELSE Await("c_cancelAll", "websets.cancel", Head(ids), p, idx, deadline,
             Tail(ids))

\* collection phase: collectItems of the first lens is sent
CollectStart(ws) ==
  Await("c_collect", "items.listAll", ws[1],
        Progress("collecting items", 3, CronTotal), 1, deadline, <<>>)

\* poll loop from lens i on: bound lenses are skipped
PollLoop(i, ws, cfg) ==
  LET rest == {j \in i..Len(cfg.lenses) : cfg.lenses[j] # "bound"} IN
  IF rest = {} THEN CollectStart(ws)
  ELSE LET j == CHOOSE k \in rest : \A m \in rest : k <= m IN
       PollStart(ws[j], Progress("polling lens", 2, CronTotal), j)

\* variant of AfterSetup that cancels the websets of a re-evaluation too
AfterSetupCancelsReeval(ws, cfg, p) ==
  IF isCancelled THEN CancelAll(Values(ws), p)
  ELSE IF ~isReeval THEN PollLoop(1, ws, cfg) ELSE CollectStart(ws)

\* the cancellation check between setup and polling
AfterSetup(ws, cfg, p) ==
  IF isCancelled
    THEN IF ~isReeval THEN CancelAll(Values(ws), p) ELSE Return(RetNull, p)
  ELSE IF ~isReeval THEN PollLoop(1, ws, cfg) ELSE CollectStart(ws)

\* variant of CreateLoop that does not test cancellation before a lens
CreateLoopNoCheck(i, ws, cfg) ==
  IF i > Len(cfg.lenses) THEN AfterSetup(ws, cfg, progress)
  ELSE LET p == Progress("creating lens", 1, CronTotal) IN
       IF cfg.lenses[i] = "bound"
         THEN Await("c_get", "websets.get", ExtId(i), p, i, deadline, <<>>)
         ELSE Await("c_create", "websets.create", NoId, p, i, deadline, <<>>)

\* head of iteration i of the create loop of an initial run
CreateLoop(i, ws, cfg) ==
  IF i > Len(cfg.lenses) THEN AfterSetup(ws, cfg, progress)
  ELSE LET p == Progress("creating lens", 1, CronTotal) IN
       IF isCancelled THEN CancelAll(Values(ws), p)
       ELSE IF cfg.lenses[i] = "bound"
         THEN Await("c_get", "websets.get", ExtId(i), p, i, deadline, <<>>)
         ELSE Await("c_create", "websets.create", NoId, p, i, deadline, <<>>)

\* websetIds once CreateLoop(i, ws, cfg) has run: a bound lens is recorded
\* before its get is awaited
CreateLoopIds(i, ws, cfg) ==
  IF i <= Len(cfg.lenses) /\ ~isCancelled /\ cfg.lenses[i] = "bound"
    THEN [ws EXCEPT ![i] = ExtId(i)]
    ELSE ws

\* head of iteration i of the fetch loop of a re-evaluation
FetchLoop(i, ws, cfg, p) ==
  IF i > Len(cfg.lenses) THEN AfterSetup(ws, cfg, p)
  ELSE IF ws[i] = NoId
    THEN Return(WorkflowError("existingWebsets missing ID", "validate"), p)
  ELSE Await("c_fetch", "websets.get", ws[i],
             Progress("fetching lens", 1, CronTotal), i, deadline, <<>>)

\* after pollUntilIdle returned (its result is not looked at)
CronAfterPoll ==
  IF isCancelled THEN CancelAll(Values(websetIds), progress)
  ELSE PollLoop(idx + 1, websetIds, config)

\* config.join of the runs: by entity, every option left to its default
RunJoinConfig == [by |-> "entity", nameThreshold |-> None,
                  minLensOverlap |-> None, days |-> None]

\* config.lenses.map(l => l.id): the id of a lens is its position
lensIds == [i \in 1..Len(config.lenses) |-> i]

\* the shaped items a lens can end up with after collection and shaping
ShapedItemsOf(i) ==
  {<<>>, <<[id |-> "id" \o ToString(i), name |-> "Acme", url |-> "u1",
            createdAt |-> 0]>>}

\* lensResults after the collection of lens i
LensResultsWith(i, items) ==
  Append(snapshot.lenses, [lensId |-> i, shapedItems |-> items])

\* joinLensResults, evaluateSignal and buildSnapshot over the lens results
buildSnapshot(lrs) ==
  LET joinResult == joinLensResults(lrs, RunJoinConfig) IN
  [lenses |-> lrs, join |-> joinResult,
   signal |-> evaluateSignal(joinResult, args.requires, lensIds)]

CronResult(snap) ==
  [NoRet EXCEPT !.kind = "value", !.websetIds = websetIds, !.items = TRUE,
                !.delta = isReeval /\ args.previousSnapshot,
                !.snapshot = snap]

CronFinish(snap) ==
  Return(CronResult(snap), Progress("complete", 8, CronTotal))

\* after the collection loop: last cancellation check, join, signal,
\* snapshot, then the monitors of an initial run
AfterCollect(lrs) ==
  IF isCancelled THEN Return(RetNull, progress)
  ELSE IF buildSnapshot(lrs).signal.threw
    THEN Return(WorkflowError(buildSnapshot(lrs).signal.msg, "validate"),
                Progress("evaluating signal", 6, CronTotal))
  ELSE IF ~isReeval /\ config.monitor
    THEN Await("c_monitor", "monitors.create", websetIds[1],
               Progress("creating monitors", 7, CronTotal), 1, deadline, <<>>)
  ELSE CronFinish(buildSnapshot(lrs))

\* what the run holds of lensResults, joinResult and signalResult after
\* AfterCollect(lrs)
SnapshotAfter(lrs) ==
  IF isCancelled \/ buildSnapshot(lrs).signal.threw
    THEN [snapshot EXCEPT !.lenses = lrs]
    ELSE buildSnapshot(lrs)

\* what pollUntilIdle's caller does with its return value
AfterPoll == IF wfType = "lifecycle.harvest" THEN HarvestAfterPoll
             ELSE CronAfterPoll

\* ================================================================ actions
Init ==
  /\ wfType = "" /\ args = NoArgs
  /\ status = "none" /\ statusLog = <<>>
  /\ progress = NoProgress /\ result = NoRet /\ error = NoRet
  /\ pc = "idle" /\ ret = NoRet
  /\ config = NoConfig /\ websetIds = <<>> /\ created = <<>>
  /\ idx = 0 /\ toCancel = <<>> /\ timedOut = FALSE
  /\ now = 0 /\ deadline = 0
  /\ calls = <<>> /\ cancelledAt = "" /\ createdAtCancel = <<>>
  /\ seen = {} /\ pollTimedOut = FALSE
  /\ partialResult = <<>> /\ snapshot = NoSnapshot /\ monitorsFailed = {}
  /\ harvested = <<>> /\ polled = ""
  /\ fnName = "none" /\ fnIn = <<>> /\ fnOut = <<>>

\* tasks.create: store.create (pending), updateStatus(working), and the
\* workflow function is scheduled
TasksCreate ==
  /\ status = "none"
  /\ \E t \in WorkflowTypes : \E a \in ArgsFor(t) :
       /\ wfType' = t
       /\ args' = a
  /\ status' = "working"
  /\ statusLog' = <<"pending", "working">>
  /\ pc' = "start"
  /\ polled' = ""
  /\ UNCHANGED <<partialResult, snapshot, monitorsFailed, harvested, fnVars>>
  /\ UNCHANGED <<progress, result, error, ret, config, websetIds, created,
                 idx, toCancel, timedOut, now, deadline, calls, cancelledAt,
                 createdAtCancel,
                 seen, pollTimedOut>>

\* tasks.cancel
TasksCancel ==
  /\ status # "none"
  /\ StoreCancel
  /\ polled' = ""
  /\ UNCHANGED <<partialResult, snapshot, monitorsFailed, harvested, fnVars>>
  /\ UNCHANGED <<wfType, args, progress, pc, ret, config, websetIds, created,
                 idx, toCancel, timedOut, now, deadline, calls, seen,
                 pollTimedOut>>

\* ---- lifecycle.harvest
lifecycleHarvestWorkflow ==
  /\ pc = "start" /\ wfType = "lifecycle.harvest"
  /\ HarvestStart
  /\ polled' = ""
  /\ UNCHANGED <<partialResult, snapshot, monitorsFailed, harvested, fnVars>>
  /\ UNCHANGED <<wfType, args, config, websetIds, created, timedOut, now,
                 cancelledAt, createdAtCancel, seen, pollTimedOut>>

\* websets.create answers
HarvestCreated ==
  /\ pc = "h_create"
  /\ \/ /\ created' = <<NewId(1)>>
        /\ HarvestAfterCreate(NewId(1))
     \/ /\ Return(UpstreamError, progress)
        /\ UNCHANGED created
  /\ polled' = ""
  /\ UNCHANGED <<partialResult, snapshot, monitorsFailed, harvested, fnVars>>
  /\ UNCHANGED <<wfType, args, config, websetIds, timedOut, now, cancelledAt,
                 createdAtCancel,
                 seen, pollTimedOut>>

\* websets.cancel (sent by the check after create) answers
HarvestCancelled ==
  /\ pc = "h_cancel"
  /\ \/ Return(RetNull, progress)
     \/ Return(UpstreamError, progress)
  /\ polled' = ""
  /\ UNCHANGED <<partialResult, snapshot, monitorsFailed, harvested, fnVars>>
  /\ UNCHANGED <<wfType, args, config, websetIds, created, timedOut, now,
                 cancelledAt, createdAtCancel, seen, pollTimedOut>>

\* collectItems finishes
HarvestCollected ==
  /\ pc = "h_collect"
  /\ \/ \E items \in CollectedItems :
          /\ harvested' = items
          /\ HarvestAfterCollect(items)
     \/ /\ Return(UpstreamError, progress)
        /\ UNCHANGED harvested
  /\ polled' = ""
  /\ UNCHANGED <<partialResult, snapshot, monitorsFailed, fnVars>>
  /\ UNCHANGED <<wfType, args, config, websetIds, created, timedOut, now,
                 cancelledAt, createdAtCancel, seen, pollTimedOut>>

\* websets.delete answers; a failure is swallowed
HarvestDeleted ==
  /\ pc = "h_delete"
  /\ HarvestFinish(harvested)
  /\ polled' = ""
  /\ UNCHANGED <<partialResult, snapshot, monitorsFailed, harvested, fnVars>>
  /\ UNCHANGED <<wfType, args, config, websetIds, created, timedOut, now,
                 cancelledAt, createdAtCancel, seen, pollTimedOut>>

\* ---- pollUntilIdle
\* variant of PollIteration that throws when the deadline has passed
PollIterationThrowsOnTimeout(s, hp) ==
  IF s = "idle"
    THEN /\ AfterPoll
         /\ timedOut' = FALSE
         /\ pollTimedOut' = pollTimedOut
  ELSE IF s = "paused"
    THEN /\ Return(PlainError("Webset was paused unexpectedly"), progress)
         /\ UNCHANGED <<timedOut, pollTimedOut>>
  ELSE IF now >= deadline
    THEN /\ Return(PlainError("Timed out"), progress)
         /\ timedOut' = timedOut
         /\ pollTimedOut' = TRUE
  ELSE LET p == IF hp THEN Progress("searching", 2, TotalSteps)
                ELSE progress IN
       /\ IF isCancelled
            THEN Await("p_cancel", "websets.cancel", PolledId, p, idx,
                       deadline, toCancel)
            ELSE Sleep(p)
       /\ UNCHANGED <<timedOut, pollTimedOut>>

\* one loop iteration, from the answer of websets.get on
PollIteration(s, hp) ==
  IF s = "idle"
    THEN /\ AfterPoll
         /\ timedOut' = FALSE
         /\ pollTimedOut' = pollTimedOut
  ELSE IF s = "paused"
    THEN /\ Return(PlainError("Webset was paused unexpectedly"), progress)
         /\ UNCHANGED <<timedOut, pollTimedOut>>
  ELSE IF now >= deadline
    THEN /\ AfterPoll
         /\ timedOut' = (wfType = "lifecycle.harvest")
         /\ pollTimedOut' = TRUE
  ELSE LET p == IF hp THEN Progress("searching", 2, TotalSteps)
                ELSE progress IN
       /\ IF isCancelled
            THEN Await("p_cancel", "websets.cancel", PolledId, p, idx,
                       deadline, toCancel)
            ELSE Sleep(p)
       /\ UNCHANGED <<timedOut, pollTimedOut>>

\* variant of PollGot in which a paused webset seen after the deadline counts
\* as a timeout
PollGotDeadlineFirst ==
  /\ pc = "p_get"
  /\ \/ \E s \in WebsetStatus, hp \in BOOLEAN :
          /\ seen' = seen \cup {s}
          /\ polled' = s
          /\ PollIteration(IF s = "paused" /\ now >= deadline
                             THEN "running" ELSE s, hp)
     \/ /\ Return(UpstreamError, progress)
        /\ polled' = "rejected"
        /\ UNCHANGED <<seen, timedOut, pollTimedOut>>
  /\ UNCHANGED <<partialResult, snapshot, monitorsFailed, harvested, fnVars>>
  /\ UNCHANGED <<wfType, args, config, websetIds, created, now, cancelledAt,
                 createdAtCancel>>

\* websets.get of the poll answers
PollGot ==
  /\ pc = "p_get"
  /\ \/ \E s \in WebsetStatus, hp \in BOOLEAN :
          /\ seen' = seen \cup {s}
          /\ polled' = s
          /\ PollIteration(s, hp)
     \/ /\ Return(UpstreamError, progress)
        /\ polled' = "rejected"
        /\ UNCHANGED <<seen, timedOut, pollTimedOut>>
  /\ UNCHANGED <<partialResult, snapshot, monitorsFailed, harvested, fnVars>>
  /\ UNCHANGED <<wfType, args, config, websetIds, created, now, cancelledAt,
                 createdAtCancel>>

\* the poll's websets.cancel answers: pollUntilIdle returns early
PollCancelled ==
  /\ pc = "p_cancel"
  /\ \/ /\ AfterPoll
        /\ timedOut' = FALSE
     \/ /\ Return(UpstreamError, progress)
        /\ UNCHANGED timedOut
  /\ polled' = ""
  /\ UNCHANGED <<partialResult, snapshot, monitorsFailed, harvested, fnVars>>
  /\ UNCHANGED <<wfType, args, config, websetIds, created, now, cancelledAt,
                 createdAtCancel,
                 seen, pollTimedOut>>

\* variant of PollSlept in which the clock stands still
PollSleptFrozenClock ==
  /\ pc = "p_sleep"
  /\ now' = now
  /\ Await("p_get", "websets.get", PolledId, progress, idx, deadline, toCancel)
  /\ polled' = ""
  /\ UNCHANGED <<partialResult, snapshot, monitorsFailed, harvested, fnVars>>
  /\ UNCHANGED <<wfType, args, config, websetIds, created, timedOut,
                 cancelledAt, createdAtCancel, seen, pollTimedOut>>

\* sleep(2000) is over: the clock has advanced and the next get is sent
PollSlept ==
  /\ pc = "p_sleep"
  /\ now' = now + 1
  /\ Await("p_get", "websets.get", PolledId, progress, idx, deadline, toCancel)
  /\ polled' = ""
  /\ UNCHANGED <<partialResult, snapshot, monitorsFailed, harvested, fnVars>>
  /\ UNCHANGED <<wfType, args, config, websetIds, created, timedOut,
                 cancelledAt, createdAtCancel, seen, pollTimedOut>>

\* ---- research.deep
researchDeepWorkflow ==
  /\ pc = "start" /\ wfType = "research.deep"
  /\ IF ~validateRequired(args, "instructions")
       THEN Return(WorkflowError("instructions is required", "validate"),
                   progress)
       ELSE Await("r_create", "research.create", NoId,
                  Progress("creating", 1, DeepTotal), idx, deadline, toCancel)
  /\ polled' = ""
  /\ UNCHANGED <<partialResult, snapshot, monitorsFailed, harvested, fnVars>>
  /\ UNCHANGED <<wfType, args, config, websetIds, created, timedOut, now,
                 cancelledAt, createdAtCancel, seen, pollTimedOut>>

\* research.create answers
DeepCreated ==
  /\ pc = "r_create"
  /\ \/ IF isCancelled THEN Return(RetNull, progress)
        ELSE Await("r_poll", "research.pollUntilFinished", <<"research", 1>>,
                   Progress("polling", 2, DeepTotal), idx, deadline, toCancel)
     \/ Return(UpstreamError, progress)
  /\ polled' = ""
  /\ UNCHANGED <<partialResult, snapshot, monitorsFailed, harvested, fnVars>>
  /\ UNCHANGED <<wfType, args, config, websetIds, created, timedOut, now,
                 cancelledAt, createdAtCancel, seen, pollTimedOut>>

\* research.pollUntilFinished answers
DeepPolled ==
  /\ pc = "r_poll"
  /\ \/ Return([NoRet EXCEPT !.kind = "value"],
               Progress("complete", 3, DeepTotal))
     \/ Return(UpstreamError, progress)
  /\ polled' = ""
  /\ UNCHANGED <<partialResult, snapshot, monitorsFailed, harvested, fnVars>>
  /\ UNCHANGED <<wfType, args, config, websetIds, created, timedOut, now,
                 cancelledAt, createdAtCancel, seen, pollTimedOut>>

\* ---- semantic.cron
semanticCronWorkflow ==
  /\ pc = "start" /\ wfType = "semantic.cron"
  /\ LET v == CronValidate
         p0 == Progress("validating", 0, CronTotal)
         n == Len(args.lenses)
         ws0 == [i \in 1..n |->
                   IF args.existingWebsets = "complete"
                        \/ (args.existingWebsets = "partial" /\ i < n)
                     THEN OldId(i) ELSE NoId]
     IN
     IF ~v.ok
       THEN Return(v.err, p0) /\ UNCHANGED <<config, websetIds>>
     ELSE /\ config' = v.cfg
          /\ IF isCancelled
               THEN Return(RetNull, p0) /\ UNCHANGED websetIds
             ELSE IF isReeval
               THEN FetchLoop(1, ws0, v.cfg, p0) /\ websetIds' = ws0
             ELSE /\ CreateLoop(1, ws0, v.cfg)
                  /\ websetIds' = CreateLoopIds(1, ws0, v.cfg)
  /\ polled' = ""
  /\ UNCHANGED <<partialResult, snapshot, monitorsFailed, harvested, fnVars>>
  /\ UNCHANGED <<wfType, args, created, timedOut, now, cancelledAt,
                 createdAtCancel, seen,
                 pollTimedOut>>

\* websets.create of lens idx answers
CronCreated ==
  /\ pc = "c_create"
  /\ \/ LET id == NewId(Len(created) + 1)
            ws == [websetIds EXCEPT ![idx] = id]
        IN /\ created' = Append(created, id)
           /\ CreateLoop(idx + 1, ws, config)
           /\ websetIds' = CreateLoopIds(idx + 1, ws, config)
     \/ /\ Return(UpstreamError, progress)
        /\ UNCHANGED <<created, websetIds>>
  /\ polled' = ""
  /\ UNCHANGED <<partialResult, snapshot, monitorsFailed, harvested, fnVars>>
  /\ UNCHANGED <<wfType, args, config, timedOut, now, cancelledAt,
                 createdAtCancel, seen,
                 pollTimedOut>>

\* websets.get of the bound lens idx answers
CronGot ==
  /\ pc = "c_get"
  /\ \/ /\ CreateLoop(idx + 1, websetIds, config)
        /\ websetIds' = CreateLoopIds(idx + 1, websetIds, config)
     \/ /\ Return(UpstreamError, progress)
        /\ UNCHANGED websetIds
  /\ polled' = ""
  /\ UNCHANGED <<partialResult, snapshot, monitorsFailed, harvested, fnVars>>
  /\ UNCHANGED <<wfType, args, config, created, timedOut, now, cancelledAt,
                 createdAtCancel,
                 seen, pollTimedOut>>

\* websets.get of lens idx of a re-evaluation answers
CronFetched ==
  /\ pc = "c_fetch"
  /\ \/ FetchLoop(idx + 1, websetIds, config, progress)
     \/ Return(UpstreamError, progress)
  /\ polled' = ""
  /\ UNCHANGED <<partialResult, snapshot, monitorsFailed, harvested, fnVars>>
  /\ UNCHANGED <<wfType, args, config, websetIds, created, timedOut, now,
                 cancelledAt, createdAtCancel, seen, pollTimedOut>>

\* a websets.cancel of a cancel loop answers
CronCancelStep ==
  /\ pc = "c_cancelAll"
  /\ \/ CancelAll(toCancel, progress)
     \/ Return(UpstreamError, progress)
  /\ polled' = ""
  /\ UNCHANGED <<partialResult, snapshot, monitorsFailed, harvested, fnVars>>
  /\ UNCHANGED <<wfType, args, config, websetIds, created, timedOut, now,
                 cancelledAt, createdAtCancel, seen, pollTimedOut>>

\* collectItems of lens idx finishes
CronCollected ==
  /\ pc = "c_collect"
  /\ \/ \E items \in ShapedItemsOf(idx) :
          LET lrs == LensResultsWith(idx, items) IN
          IF idx < Len(config.lenses)
            THEN /\ Await("c_collect", "items.listAll", websetIds[idx + 1],
                          progress, idx + 1, deadline, toCancel)
                 /\ snapshot' = [snapshot EXCEPT !.lenses = lrs]
            ELSE /\ AfterCollect(lrs)
                 /\ snapshot' = SnapshotAfter(lrs)
     \/ /\ Return(UpstreamError, progress)
        /\ UNCHANGED snapshot
  /\ polled' = ""
  /\ UNCHANGED <<partialResult, monitorsFailed, harvested, fnVars>>
  /\ UNCHANGED <<wfType, args, config, websetIds, created, timedOut, now,
                 cancelledAt, createdAtCancel, seen, pollTimedOut>>

\* variant of CronMonitored in which a failed monitor creation is thrown
CronMonitoredFatal ==
  /\ pc = "c_monitor"
  /\ \E failed \in BOOLEAN :
       /\ monitorsFailed' = IF failed THEN monitorsFailed \cup {idx}
                            ELSE monitorsFailed
       /\ IF failed THEN Return(UpstreamError, progress)
          ELSE IF idx < Len(config.lenses)
            THEN Await("c_monitor", "monitors.create", websetIds[idx + 1],
                       progress, idx + 1, deadline, toCancel)
          ELSE CronFinish(snapshot)
  /\ polled' = ""
  /\ UNCHANGED <<partialResult, snapshot, harvested, fnVars>>
  /\ UNCHANGED <<wfType, args, config, websetIds, created, timedOut, now,
                 cancelledAt, createdAtCancel, seen, pollTimedOut>>

\* monitors.create of lens idx answers; a failure is swallowed
CronMonitored ==
  /\ pc = "c_monitor"
  /\ \E failed \in BOOLEAN :
       monitorsFailed' = IF failed THEN monitorsFailed \cup {idx}
                         ELSE monitorsFailed
  /\ IF idx < Len(config.lenses)
       THEN Await("c_monitor", "monitors.create", websetIds[idx + 1],
                  progress, idx + 1, deadline, toCancel)
       ELSE CronFinish(snapshot)
  /\ polled' = ""
  /\ UNCHANGED <<partialResult, snapshot, harvested, fnVars>>
  /\ UNCHANGED <<wfType, args, config, websetIds, created, timedOut, now,
                 cancelledAt, createdAtCancel, seen, pollTimedOut>>

Next ==
  \/ TasksCreate
  \/ TasksCancel
  \/ lifecycleHarvestWorkflow
  \/ HarvestCreated
  \/ HarvestCancelled
  \/ HarvestCollected
  \/ HarvestDeleted
  \/ PollGot
  \/ PollCancelled
  \/ PollSlept
  \/ researchDeepWorkflow
  \/ DeepCreated
  \/ DeepPolled
  \/ semanticCronWorkflow
  \/ CronCreated
  \/ CronGot
  \/ CronFetched
  \/ CronCancelStep
  \/ CronCollected
  \/ CronMonitored

Spec == Init /\ [][Next]_vars

\* every awaited call is answered and every continuation is run in the end
\* (the upstream answers, the clock advances, the event loop keeps going)
LiveSpec == Init /\ [][Next]_vars /\ WF_vars(Next)

\* ================================== the functions of semanticCron.ts alone
\* most lens results handed to joinLensResults
MaxJoinLenses == 2

\* shaped items (name, url, createdAt in days) the lenses are filled with
JoinItems ==
  {[name |-> "Acme", url |-> "u1", createdAt |-> 0],
   [name |-> "Acme", url |-> "", createdAt |-> 5],
   [name |-> "Acme Inc", url |-> "", createdAt |-> 0],
   [name |-> "Bolt", url |-> "u1", createdAt |-> 5]}

\* the shaped items of one lens: none, one or two
JoinItemSeqs ==
  {<<>>} \cup {<<a>> : a \in JoinItems} \cup {<<a, b>> : a, b \in JoinItems}

\* lens results of lenses 1..n; every shaped item has an id of its own
LensResultsOf(itemSeqs) ==
  [l \in DOMAIN itemSeqs |->
     [lensId |-> l,
      shapedItems |->
        [k \in DOMAIN itemSeqs[l] |->
           [id |-> "id" \o ToString(l) \o ToString(k),
            name |-> itemSeqs[l][k].name, url |-> itemSeqs[l][k].url,
            createdAt |-> itemSeqs[l][k].createdAt]]]]

JoinLensResults ==
  {LensResultsOf(q) :
     q \in UNION {[1..n -> JoinItemSeqs] : n \in 1..MaxJoinLenses}}

\* join configs by entity and by entity+temporal
JoinConfigs ==
  [by : {"entity", "entity+temporal"},
   nameThreshold : {None, Some(50), Some(100)},
   minLensOverlap : {None, Some(1), Some(3)},
   days : {None, Some(0), Some(1), Some(7)}]

\* lens ids of the config whose signal is evaluated
SignalLensIds == <<1, 2, 3>>

\* joined entities: a name and the lenses it was seen in
SignalEntities ==
  {[entity |-> n, url |-> "", presentInLenses |-> p, lensCount |-> Len(p)] :
     n \in {"Acme", "Bolt"},
     p \in {<<1>>, <<2>>, <<3>>, <<1, 2>>, <<1, 3>>, <<3, 2>>, <<1, 2, 3>>}}

\* join results by entity: no, one or two joined entities
SignalJoinResults ==
  {[type |-> "entity", entities |-> es,
    lensesWithEvidence |-> UNION {Range(es[k].presentInLenses) :
                                    k \in DOMAIN es}] :
     es \in {<<>>} \cup {<<a>> : a \in SignalEntities}
              \cup {<<a, b>> : a, b \in SignalEntities}}

\* signal.requires of every rule type
SignalConfigs ==
  {Requires("all", None, NoCombo), Requires("any", None, NoCombo)}
    \cup {Requires("threshold", m, NoCombo) :
            m \in {None, Some(0), Some(1), Some(3)}}
    \cup {Requires("combination", None, c) :
            c \in {NoCombo, Combos(<<>>), Combos(<<<<1, 0>>>>),
                   Combos(<<<<1, 2>>, <<1, 3>>>>),
                   Combos(<<<<3>>, <<1>>>>), Combos(<<<<2, 3>>>>),
                   Combos(<<<<>>>>)}}

\* joined entities of a snapshot: a name, and a url or none
DeltaEntities ==
  [entity : {"Acme", "Bolt"}, url : {"", "u1", "Acme"}]

\* signals of a snapshot: the fired bit and the names of the entities
DeltaSignals ==
  [fired : BOOLEAN,
   entities : {<<>>, <<"Acme">>, <<"Bolt">>, <<"Acme", "Bolt">>,
               <<"Bolt", "Bolt">>}]

\* snapshots, as far as computeDelta reads their join and their signal:
\* the joins are varied under a signal that did not fire, the signals under
\* an empty join
DeltaSnapshots ==
  {[join |-> [entities |-> es], signal |-> [fired |-> FALSE, entities |-> <<>>]] :
     es \in {<<>>} \cup {<<a>> : a \in DeltaEntities}
              \cup {<<a, b>> : a, b \in DeltaEntities}}
    \cup {[join |-> [entities |-> <<>>], signal |-> sg] : sg \in DeltaSignals}

\* longest list of items handed to filterAndProjectItems
MaxItems == 2

\* which of the six sources of a name an item carries: company.name,
\* person.name, article.title, researchPaper.title, custom.title, description
NameSourceSets ==
  {{}} \cup {{k} : k \in 1..6} \cup {{k, k + 1} : k \in 1..5} \cup {1..6}

\* a properties bag with the given name sources, url and type
PropsWith(S, u, t, n) ==
  [companyName |-> IF 1 \in S THEN Some("Acme") ELSE NoStr,
   personName |-> IF 2 \in S THEN Some("Jane") ELSE NoStr,
   articleTitle |-> IF 3 \in S THEN Some("Title") ELSE NoStr,
   researchPaperTitle |-> IF 4 \in S THEN Some("Paper") ELSE NoStr,
   customTitle |-> IF 5 \in S THEN Some("Custom") ELSE NoStr,
   description |-> IF 6 \in S THEN Some("desc") ELSE NoStr,
   url |-> u, type |-> t, content |-> n]

\* an evaluation and an enrichment as the upstream sends them
RawEvaluation(sat, n) ==
  [criterion |-> "c", satisfied |-> sat, reasoning |-> n, references |-> n]

RawEnrichment(n) ==
  [description |-> "d", format |-> "text", result |-> "r",
   enrichmentId |-> n, status |-> n, reasoning |-> n, references |-> n]

\* the evaluations of an item: undefined, none, or up to two
RawEvaluationLists(n) ==
  {NoList, Some(<<>>), Some(<<RawEvaluation("yes", n)>>),
   Some(<<RawEvaluation("no", n)>>), Some(<<RawEvaluation("unclear", n)>>),
   Some(<<RawEvaluation("no", n), RawEvaluation("yes", n)>>)}

\* raw upstream items, with and without a properties bag; n is the value of
\* the fields a projection drops
RawItemsWith(n) ==
  {[id |-> "i1", properties |-> p, evaluations |-> ev, enrichments |-> en,
    websetId |-> n, sourceId |-> n, createdAt |-> n, updatedAt |-> n] :
     p \in {[given |-> FALSE, v |-> NoProps]}
             \cup {[given |-> TRUE, v |-> PropsWith(S, u, t, n)] :
                     S \in NameSourceSets, u \in {NoStr, Some("u1")},
                     t \in {NoStr, Some("company")}},
     ev \in RawEvaluationLists(n),
     en \in {NoList, Some(<<>>), Some(<<RawEnrichment(n)>>)}}

RawItems == RawItemsWith("a") \cup RawItemsWith("b")

\* the items of a bulk listing: they differ in their evaluations
ListedItems ==
  {[id |-> "i1",
    properties |-> [given |-> TRUE,
                    v |-> PropsWith({1}, Some("u1"), Some("company"), "a")],
    evaluations |-> ev, enrichments |-> NoList,
    websetId |-> "a", sourceId |-> "a", createdAt |-> "a",
    updatedAt |-> "a"] : ev \in RawEvaluationLists("a")}

\* longest list of classified items handed to selectElites
MaxClassified == 3

\* classified items: a criteria vector (the niche) and a fitness score
ClassifiedKinds ==
  [niche : {<<TRUE, FALSE>>, <<FALSE, TRUE>>, <<FALSE, FALSE>>},
   fitnessScore : {3, 12}]

\* lists of classified items; the id of an item is its position in the list
ClassifiedLists ==
  {[k \in DOMAIN q |-> [id |-> k, niche |-> q[k].niche,
                        fitnessScore |-> q[k].fitnessScore]] :
     q \in SeqsUpTo(ClassifiedKinds, MaxClassified)}

SelectionStrategies == {"diverse", "all-criteria", "any-criteria"}

\* conditions of every operator, and of one the code does not know
Conditions ==
  {Condition("d", "exists", NumValue(0)), Condition("d", "near", NumValue(0))}
    \cup {Condition("d", op, NumValue(n)) :
            op \in {"gte", "gt", "lte", "lt", "eq"}, n \in {-1, 0, 3}}
    \cup {Condition("d", op, StrValue(s)) :
            op \in {"contains", "matches"}, s \in {"", "ACME", "acme", "3"}}
    \cup {Condition("d", "oneOf", ListValue(l)) :
            l \in {<<>>, <<"">>, <<"8", "Acme">>}}
    \cup {Condition("d", "withinDays", NumValue(n)) : n \in {0, 5, 7}}

\* enrichment results: null, an empty array, one string, two strings
EnrichmentResults ==
  {NoList, Some(<<>>)} \cup {Some(<<s>>) : s \in Strings}
    \cup {Some(<<"", "8">>), Some(<<"acme", "">>)}

\* most shapes a config carries
MaxShapes == 2

\* the map from enrichment ids to descriptions of the lens that is shaped
ShapeEnrichmentMap == [e1 |-> "d", e2 |-> "g"]

\* shapes of lens 1 with none, one or two conditions under either logic, and
\* a shape of lens 2
ShapeConfigs ==
  {[lensId |-> 1, logic |-> lg, conditions |-> cs] :
     lg \in {"all", "any"},
     cs \in {<<>>, <<Condition("d", "gte", NumValue(3))>>,
             <<Condition("g", "exists", NumValue(0))>>,
             <<Condition("d", "gte", NumValue(3)),
               Condition("g", "exists", NumValue(0))>>}}
    \cup {[lensId |-> 2, logic |-> "any",
           conditions |-> <<Condition("g", "exists", NumValue(0))>>]}

\* an enrichment of a raw item
ItemEnrichment(id, res) ==
  [enrichmentId |-> id, description |-> "x", format |-> "text",
   result |-> res, status |-> "completed"]

\* raw items of the lens: with and without evaluations and enrichments
ShapeItemKinds ==
  [evaluations : {NoList, Some(<<RawEvaluation("no", "a")>>),
                  Some(<<RawEvaluation("unclear", "a"),
                         RawEvaluation("yes", "a")>>)},
   enrichments : {NoList,
                  Some(<<ItemEnrichment("e1", Some(<<"8">>))>>),
                  Some(<<ItemEnrichment("e1", Some(<<"">>)),
                         ItemEnrichment("e2", Some(<<"acme">>))>>),
                  Some(<<ItemEnrichment("e1", Some(<<"8">>)),
                         ItemEnrichment("e2", NoList)>>),
                  Some(<<ItemEnrichment("e9", Some(<<"8">>)),
                         ItemEnrichment("e2", Some(<<"acme">>))>>)}]

\* lists of up to two raw items; the id of an item is its position
ShapeItemLists ==
  {[k \in DOMAIN q |->
      [id |-> k,
       properties |-> [given |-> TRUE,
                       v |-> PropsWith({1}, Some("u1"), Some("company"), "a")],
       evaluations |-> q[k].evaluations, enrichments |-> q[k].enrichments,
       createdAt |-> 0]] :
     q \in SeqsUpTo(ShapeItemKinds, 1)
             \cup {<<a, b>> : a, b \in {x \in ShapeItemKinds :
                                          x.enrichments # NoList
                                          /\ x.enrichments.v[1].result.v = <<"8">>}}}

\* joinLensResults is applied to lens results and a join config
JoinApply ==
  /\ fnName = "none"
  /\ \E lrs \in JoinLensResults : \E cfg \in JoinConfigs :
       /\ fnIn' = [lensResults |-> lrs, joinConfig |-> cfg]
       /\ fnOut' = [result |-> joinLensResults(lrs, cfg),
                    entries |-> JoinedEntries(lrs, cfg)]
  /\ fnName' = "joinLensResults"
  /\ UNCHANGED wfVars

\* evaluateSignal is applied to a join result and a signal config
SignalApply ==
  /\ fnName = "none"
  /\ \E jr \in SignalJoinResults : \E cfg \in SignalConfigs :
       /\ fnIn' = [joinResult |-> jr, signalConfig |-> cfg,
                   allLensIds |-> SignalLensIds]
       /\ fnOut' = evaluateSignal(jr, cfg, SignalLensIds)
  /\ fnName' = "evaluateSignal"
  /\ UNCHANGED wfVars

\* computeDelta is applied to two snapshots
DeltaApply ==
  /\ fnName = "none"
  /\ \E cur \in DeltaSnapshots : \E prev \in DeltaSnapshots :
       /\ fnIn' = [current |-> cur, previous |-> prev]
       /\ fnOut' = computeDelta(cur, prev)
  /\ fnName' = "computeDelta"
  /\ UNCHANGED wfVars

\* projectItem is applied to a raw item, and again to what it returned
ProjectApply ==
  /\ fnName = "none"
  /\ \E x \in RawItems :
       /\ fnIn' = [item |-> x]
       /\ fnOut' = [once |-> projectItem(x),
                    twice |-> projectItem(projectItem(x))]
  /\ fnName' = "projectItem"
  /\ UNCHANGED wfVars

\* filterAndProjectItems is applied to a list of raw items
FilterApply ==
  /\ fnName = "none"
  /\ \E items \in SeqsUpTo(ListedItems, MaxItems) :
       /\ fnIn' = [items |-> items]
       /\ fnOut' = filterAndProjectItems(items)
  /\ fnName' = "filterAndProjectItems"
  /\ UNCHANGED wfVars

\* selectElites is applied to a list of classified items and a strategy
ElitesApply ==
  /\ fnName = "none"
  /\ \E classified \in ClassifiedLists : \E strategy \in SelectionStrategies :
       /\ fnIn' = [classified |-> classified, strategy |-> strategy]
       /\ fnOut' = selectElites(classified, strategy)
  /\ fnName' = "selectElites"
  /\ UNCHANGED wfVars

\* evaluateCondition is applied to a condition and an enrichment result
ConditionApply ==
  /\ fnName = "none"
  /\ \E cond \in Conditions : \E res \in EnrichmentResults :
       /\ fnIn' = [condition |-> cond, enrichmentResult |-> res]
       /\ fnOut' = evaluateCondition(cond, res)
  /\ fnName' = "evaluateCondition"
  /\ UNCHANGED wfVars

\* the collect step of semantic.cron is applied to the raw items of lens 1
ShapeApply ==
  /\ fnName = "none"
  /\ \E rawItems \in ShapeItemLists :
       \E shapes \in SeqsUpTo(ShapeConfigs, MaxShapes) :
         /\ fnIn' = [rawItems |-> rawItems, shapes |-> shapes, lensId |-> 1,
                     enrichmentMap |-> ShapeEnrichmentMap]
         /\ fnOut' = shapedItemsOfLens(rawItems, shapes, 1,
                                       ShapeEnrichmentMap)
  /\ fnName' = "shapedItems"
  /\ UNCHANGED wfVars

\* longest listing handed to collectItems
MaxStream == 3

\* largest cap handed to collectItems
MaxCap == 3

\* listings of a webset's items
ItemStreams == SeqsUpTo({"a", "b"}, MaxStream)

\* collectItems is applied to a listing and a cap (or none)
CollectApply ==
  /\ fnName = "none"
  /\ \E stream \in ItemStreams :
       \E cap \in {None} \cup {Some(c) : c \in 0..MaxCap} :
         /\ fnIn' = [stream |-> stream, cap |-> cap]
         /\ fnOut' = collectItems(stream, cap)
  /\ fnName' = "collectItems"
  /\ UNCHANGED wfVars

\* longest time between two evaluations, in minutes
MaxMinutes == 1510

\* durations in milliseconds: whole minutes, and just short of the next one
Durations == {k * 60000 + r : k \in 0..MaxMinutes, r \in {0, 59999}}

\* formatDuration is applied to the time between two evaluations
FormatApply ==
  /\ fnName = "none"
  /\ \E ms \in Durations :
       /\ fnIn' = [ms |-> ms]
       /\ fnOut' = formatDuration(ms)
  /\ fnName' = "formatDuration"
  /\ UNCHANGED wfVars

FnNext ==
  \/ JoinApply
  \/ SignalApply
  \/ DeltaApply
  \/ ProjectApply
  \/ FilterApply
  \/ ElitesApply
  \/ ConditionApply
  \/ ShapeApply
  \/ CollectApply
  \/ FormatApply

FnSpec == Init /\ [][FnNext]_vars

\* ============================================================= properties
Done == pc = "done"

Harvest == wfType = "lifecycle.harvest"

Cron == wfType = "semantic.cron"

Deep == wfType = "research.deep"

\* ids on which upstream websets.cancel has been invoked, one per call
CancelledIds == SelectSeq(calls, LAMBDA c : c.op = "websets.cancel")

\* how many times upstream websets.cancel has been invoked on id
CancelCount(id) ==
  Cardinality({i \in DOMAIN calls :
                 calls[i].op = "websets.cancel" /\ calls[i].id = id})

\* the thrown error is an upstream rejection, the poller's paused error, or
\* the missing-id error of a re-evaluation's fetch loop
ThrownBeforeCheck(r) ==
  r.kind = "throw" /\ r.msg \in {"upstream", "Webset was paused unexpectedly",
                                 "existingWebsets missing ID"}

\* C1: the values written to a task's status form a prefix of
\* pending, working, one terminal status; and status is the last one written
C1_StatusPath ==
  /\ statusLog \in {<<>>, <<"pending">>, <<"pending", "working">>}
                     \cup {<<"pending", "working", t>> : t \in Terminal}
  /\ status = IF statusLog = <<>> THEN "none" ELSE statusLog[Len(statusLog)]

\* C1 witness: the workflow threw after tasks.cancel had been applied and the
\* task is still cancelled
C1_Witness ==
  /\ Done /\ ret.kind = "throw" /\ cancelledAt \notin {"", "start"}
  /\ statusLog = <<"pending", "working", "cancelled">>

\* a step from a terminal task leaves its status, result and error alone
TerminalKept ==
  status \in Terminal =>
    (status' = status /\ result' = result /\ error' = error)

\* C2: once the task is terminal, no step changes its status, result or error
C2_TerminalImmutable == [][TerminalKept]_vars

\* C2 witness: the workflow returned a value after tasks.cancel was applied
\* and the cancelled task holds no result
C2_Witness ==
  /\ Done /\ ret.kind = "value" /\ status = "cancelled" /\ result = NoRet

\* suspension points after the last cancellation check of the workflow
AfterLastCheck == {"h_collect", "h_delete", "c_monitor"}

\* C3 as stated: cancelled at any suspension point of lifecycle.harvest or
\* semantic.cron, the workflow does not return a result
C3_Original ==
  (Done /\ (Harvest \/ Cron) /\ cancelledAt \notin {"", "start", "done"})
    => ret.kind # "value"

\* C3 amended: cancelled at a suspension point that precedes the workflow's
\* last cancellation check, the workflow returns null, or throws because an
\* upstream call failed, the polled webset was paused, or a re-evaluation
\* found no existingWebsets id for a later lens
C3_Amended ==
  (Done /\ (Harvest \/ Cron)
        /\ cancelledAt \notin ({"", "start", "done"} \cup AfterLastCheck))
    => (ret.kind = "null" \/ ThrownBeforeCheck(ret))

\* C3 witness: semantic.cron cancelled during item collection returned null
C3_Witness ==
  Done /\ Cron /\ cancelledAt = "c_collect" /\ ret.kind = "null"

\* C4: when the task was cancelled after the workflow had created a webset
\* and the workflow returned null, upstream cancel was invoked on every
\* webset the workflow created
C4_CreatedAreCancelled ==
  (Done /\ (Harvest \/ Cron) /\ ret.kind = "null" /\ createdAtCancel # <<>>)
    => \A w \in Range(created) : CancelCount(w) >= 1

\* C5: upstream cancel is invoked at most once on any webset id
C5_AtMostOneCancel ==
  \A w \in Range(CancelledIds) : CancelCount(w.id) <= 1

\* C6: semantic.cron never invokes upstream cancel on a webset bound through
\* lens.source.websetId
C6_BoundNeverCancelled ==
  Cron => \A c \in Range(CancelledIds) : c.id[1] # "ext"

\* C7: lifecycle.harvest with valid args against an upstream that never
\* answers idle or paused (and rejects no call), not cancelled, ends by
\* returning a result with timedOut = true, the items collected and the id
\* of the webset it created; the task is completed with that result
C7_TimeoutReturnsPartial ==
  (Done /\ Harvest /\ validateRequired(args, "query")
        /\ validateEntity(args.entity)
        /\ seen \cap {"idle", "paused"} = {}
        /\ ret.msg # "upstream" /\ cancelledAt = "")
    => /\ ret.kind = "value" /\ ret.timedOut /\ ret.items
       /\ ret.websetIds = <<NewId(1)>>
       /\ \E i \in DOMAIN calls :
            calls[i] = [op |-> "items.listAll", id |-> NewId(1)]
       /\ status = "completed" /\ result = ret

\* C7 witness: a harvest that slept, then timed out, and returned its result
C7_Witness ==
  /\ Done /\ Harvest /\ ret.kind = "value" /\ ret.timedOut
  /\ now >= 1 /\ seen \cap {"idle", "paused"} = {} /\ status = "completed"

\* C8: when a poll-to-idle step reached its deadline, the result the
\* workflow returns carries timedOut: true
C8_TimedOutFlag ==
  (Done /\ ret.kind = "value" /\ pollTimedOut) => ret.timedOut

\* args the validators of the workflow reject
InvalidArgs ==
  \/ Harvest /\ (~validateRequired(args, "query")
                   \/ ~validateEntity(args.entity))
  \/ Deep /\ ~validateRequired(args, "instructions")

\* C9: with a missing query, an entity that is not an object with a type, or
\* missing instructions, no upstream call is made and no progress is written,
\* and the workflow throws a 'validate' error with recoverable = false, which
\* the task records as failed (unless it was cancelled before it started)
C9_ValidateFirst ==
  InvalidArgs =>
    /\ calls = <<>> /\ progress = NoProgress
    /\ pc \in {"start", "done"}
    /\ Done => /\ ret.kind = "throw" /\ ret.step = "validate"
               /\ ~ret.recoverable
               /\ cancelledAt = "" => (status = "failed" /\ error = ret)

\* C9 witness: a harvest with a query and an entity object lacking 'type'
\* has failed at 'validate'
C9_Witness ==
  /\ Done /\ Harvest /\ args.query = "str" /\ args.entity = "objNoType"
  /\ status = "failed" /\ error.step = "validate" /\ ~error.recoverable

\* C10: for a schema-valid semantic.cron config, if a {{name}} token remains
\* after substituting the variables (none when they are omitted), the run
\* throws at 'validate' naming exactly the distinct unresolved tokens and
\* makes no upstream call; otherwise the evaluated config holds no token
C10_NoResidualTokens ==
  (Cron /\ pc \notin {"idle", "start"} /\ args \in TemplatedCronArgs) =>
    LET residual == Unresolved(Substitute(args.text, args.variables.entries))
    IN IF residual # {}
         THEN /\ Done /\ ret.kind = "throw" /\ ret.step = "validate"
              /\ ret.tokens = residual /\ calls = <<>>
         ELSE Unresolved(config.text) = {}

\* C11: a semantic.cron run whose signal.requires.sufficient names an
\* undeclared lens makes no upstream call (no webset is created, fetched,
\* polled or listed) and ends with a 'validate' error
C11_SignalValidatedFirst ==
  (Cron /\ args \in BadSignalCronArgs) =>
    /\ calls = <<>>
    /\ Done /\ cancelledAt = "" => (ret.kind = "throw" /\ ret.step = "validate")

\* C12: when an upstream call failed after lifecycle.harvest or semantic.cron
\* had created websets and the task is recorded as failed, the task's partial
\* result holds the id of every webset the run created
C12_PartialHoldsCreated ==
  (Done /\ (Harvest \/ Cron) /\ ret = UpstreamError /\ status = "failed"
        /\ created # <<>>)
    => Range(created) \subseteq Range(partialResult)

\* the upstream calls of this run with operation op, in order
CallsOf(op) == SelectSeq(calls, LAMBDA c : c.op = op)

\* C13: a re-evaluation (existingWebsets supplied) never creates or cancels
\* a webset, never creates a monitor and never polls a webset to idle; its
\* upstream calls are one get per lens, in lens order, and item listings
C13_ReevalFrame ==
  (Cron /\ isReeval) =>
    /\ \A i \in DOMAIN calls : calls[i].op \in {"websets.get", "items.listAll"}
    /\ pc \notin {"c_create", "c_get", "c_cancelAll", "c_monitor",
                  "p_get", "p_cancel", "p_sleep"}
    /\ LET gets == CallsOf("websets.get") IN
       /\ Len(gets) <= Len(args.lenses)
       /\ \A i \in DOMAIN gets : gets[i].id = OldId(i)

\* C13 witness: a re-evaluation cancelled while an upstream call was in
\* flight has returned null
C13_Witness ==
  /\ Done /\ Cron /\ isReeval /\ cancelledAt \in {"c_fetch", "c_collect"}
  /\ ret.kind = "null" /\ CallsOf("items.listAll") # <<>>

\* C14: whenever a previousSnapshot was supplied and semantic.cron returned
\* a result, in an initial run or a re-evaluation, the result has a delta
C14_DeltaWithPrevious ==
  (Done /\ Cron /\ ret.kind = "value" /\ args.previousSnapshot) => ret.delta

\* positions in calls of the upstream calls with operation op
CallIndexes(op) == {i \in DOMAIN calls : calls[i].op = op}

\* C15: monitor creation is attempted only in an initial run with
\* config.monitor, once per lens in lens order, after every item listing and
\* after join and signal were evaluated over all lenses; whichever attempts
\* failed, the run returns the result built from the webset ids and from the
\* join and signal computed before the first attempt
C15_MonitorsIsolated ==
  LET mons == CallsOf("monitors.create") IN
  /\ (Cron /\ mons # <<>>) =>
       /\ ~isReeval /\ config.monitor
       /\ Len(mons) <= Len(config.lenses)
       /\ \A i \in DOMAIN mons : mons[i].id = websetIds[i]
       /\ \A m \in CallIndexes("monitors.create") :
            \A l \in CallIndexes("items.listAll") : l < m
       /\ Len(snapshot.lenses) = Len(config.lenses)
       /\ snapshot = buildSnapshot(snapshot.lenses)
       /\ ~snapshot.signal.threw
       /\ monitorsFailed \subseteq 1..Len(mons)
       /\ Done => ret = CronResult(buildSnapshot(snapshot.lenses))
  /\ (Done /\ Cron /\ ~isReeval /\ config.monitor /\ ret.kind = "value") =>
       Len(mons) = Len(config.lenses)

\* C15 witness: of two monitor attempts the first failed, and the run
\* returned its result with the signal fired
C15_Witness ==
  /\ Done /\ Cron /\ Len(config.lenses) = 2 /\ monitorsFailed = {1}
  /\ ret.kind = "value" /\ ret.snapshot.signal.fired

Joined == fnName = "joinLensResults"

\* C16: every entity joinLensResults returns (by entity or entity+temporal)
\* is present in at least minLensOverlap distinct lenses (2 when omitted),
\* and its lensCount is the number of distinct lens ids in presentInLenses
C16_OverlapAtLeastK ==
  Joined =>
    LET k == IF fnIn.joinConfig.minLensOverlap.given
               THEN fnIn.joinConfig.minLensOverlap.v ELSE 2
        es == fnOut.result.entities
    IN \A i \in DOMAIN es :
         /\ Cardinality(Range(es[i].presentInLenses)) >= k
         /\ es[i].lensCount = Cardinality(Range(es[i].presentInLenses))

\* C16 witness: with minLensOverlap omitted an entity seen in two lenses is
\* returned, one of the lenses holding it twice
C16_Witness ==
  /\ Joined /\ ~fnIn.joinConfig.minLensOverlap.given
  /\ \E i \in DOMAIN fnOut.entries :
       /\ Len(fnOut.entries[i].timestamps) = 3
       /\ fnOut.result.entities[i].lensCount = 2

\* C17: every entity returned by a join by entity+temporal has two
\* timestamps from distinct lenses, within temporal.days of each other when
\* temporal.days is given
C17_TwoLensesInWindow ==
  (Joined /\ fnIn.joinConfig.by = "entity+temporal") =>
    \A k \in DOMAIN fnOut.entries :
      LET ts == fnOut.entries[k].timestamps IN
      \E i, j \in DOMAIN ts :
        /\ ts[i].lensId # ts[j].lensId
        /\ fnIn.joinConfig.days.given =>
             Abs(ts[i].createdAt - ts[j].createdAt) <= fnIn.joinConfig.days.v

Signalled == fnName = "evaluateSignal"

\* the names of the joined entities whose presentInLenses contains combo
NamesCovering(es, combo) ==
  LET hit == SelectSeq(es, LAMBDA e :
               \A l \in Range(combo) : l \in Range(e.presentInLenses))
  IN [k \in DOMAIN hit |-> hit[k].entity]

\* C18: a 'combination' rule evaluated over joined entities fires iff some
\* listed sufficient set is contained in the presentInLenses of some joined
\* entity; matchedCombination is the first such set in listed order, and
\* entities are the names of exactly the joined entities covering that set
C18_CombinationOverEntities ==
  (Signalled /\ fnIn.signalConfig.type = "combination" /\ ~fnOut.threw
             /\ fnIn.joinResult.entities # <<>>) =>
    LET es == fnIn.joinResult.entities
        combos == fnIn.signalConfig.sufficient.v
        covered == {k \in DOMAIN combos : NamesCovering(es, combos[k]) # <<>>}
    IN /\ fnOut.fired <=> covered # {}
       /\ fnOut.matchedCombination.given <=> covered # {}
       /\ covered # {} =>
            \E k \in covered :
              /\ \A m \in covered : k <= m
              /\ fnOut.matchedCombination.v = combos[k]
              /\ fnOut.entities = NamesCovering(es, combos[k])
       /\ covered = {} => fnOut.entities = <<>>

\* C18 witness: the spec's scenario; of the sets [1,2] and [1,3], both
\* covered, the first is matched, by one of two joined entities
C18_Witness ==
  /\ Signalled /\ fnIn.signalConfig.sufficient.v = <<<<1, 2>>, <<1, 3>>>>
  /\ Len(fnIn.joinResult.entities) = 2
  /\ fnIn.joinResult.entities[1].presentInLenses = <<1, 3>>
  /\ fnOut.fired /\ fnOut.matchedCombination.v = <<1, 2>>
  /\ fnOut.entities = <<"Acme">>

\* joined entity e satisfies signal rule cfg over the lenses ids
SatisfiesRule(e, cfg, ids) ==
  LET present == Range(e.presentInLenses) IN
  IF cfg.type = "all" THEN Range(ids) \subseteq present
  ELSE IF cfg.type = "any" THEN TRUE
  ELSE IF cfg.type = "threshold"
    THEN e.lensCount >= (IF cfg.min.given THEN cfg.min.v ELSE 2)
  ELSE \E k \in DOMAIN cfg.sufficient.v :
         Range(cfg.sufficient.v[k]) \subseteq present

\* C19: after a join by entity, for every rule type and parameter the
\* signal is fired iff at least one joined entity satisfies the rule; for
\* the rules 'all', 'any' and 'threshold', entities lists the names of the
\* satisfying entities and satisfiedBy is the union of their presentInLenses
C19_FiredIffEntitySatisfies ==
  (Signalled /\ ~fnOut.threw) =>
    LET cfg == fnIn.signalConfig
        sat == SelectSeq(fnIn.joinResult.entities,
                         LAMBDA e : SatisfiesRule(e, cfg, fnIn.allLensIds))
    IN /\ fnOut.fired <=> sat # <<>>
       /\ cfg.type # "combination" =>
            /\ fnOut.entities = [k \in DOMAIN sat |-> sat[k].entity]
            /\ fnOut.satisfiedBy =
                 UNION {Range(sat[k].presentInLenses) : k \in DOMAIN sat}

\* the keys of a snapshot's joined entities: the url when there is one,
\* the name otherwise
KeysOf(snap) ==
  {IF e.url # "" THEN e.url ELSE e.entity : e \in Range(snap.join.entities)}

\* no value occurs twice in q
NoRepeat(q) == \A i, j \in DOMAIN q : q[i] = q[j] => i = j

C21_SignalTransition ==
  fnName = "computeDelta" =>
    LET t == fnOut.signalTransition
        cur == fnIn.current.signal
        prev == fnIn.previous.signal
    IN /\ t.was = prev.fired
       /\ t.now = cur.fired
       /\ t.changed <=> (prev.fired # cur.fired)
       /\ Range(t.newEntities) = Range(cur.entities) \ Range(prev.entities)
       /\ Range(t.lostEntities) = Range(prev.entities) \ Range(cur.entities)
       /\ NoRepeat(t.newEntities) /\ NoRepeat(t.lostEntities)

\* C21 witness: the signal had not fired and fires now for "Acme", while
\* "Bolt" went away
C21_Witness ==
  /\ fnName = "computeDelta"
  /\ ~fnIn.previous.signal.fired /\ fnIn.current.signal.fired
  /\ fnIn.previous.signal.entities = <<"Bolt", "Bolt">>
  /\ fnIn.current.signal.entities = <<"Acme">>
  /\ fnOut.signalTransition =
       [was |-> FALSE, now |-> TRUE, changed |-> TRUE,
        newEntities |-> <<"Acme">>, lostEntities |-> <<"Bolt">>]

\* C22: projecting a raw item that carries a properties bag a second time
\* changes nothing: name, url, entityType, description and every other field
\* of projectItem(projectItem(x)) equal those of projectItem(x)
C22_ProjectIdempotent ==
  (fnName = "projectItem" /\ fnIn.item.properties.given) =>
    fnOut.twice = fnOut.once

\* the values a dropped field can take
Hidden == {"a", "b"}

\* everything a projection drops: properties.content, the reasoning and
\* references of evaluations, the enrichmentId, status, reasoning and
\* references of enrichments, and websetId, sourceId, createdAt, updatedAt
Noises ==
  [content : Hidden, evalReasoning : Hidden, evalReferences : Hidden,
   enrichmentId : Hidden, enrichmentStatus : Hidden,
   enrichmentReasoning : Hidden, enrichmentReferences : Hidden,
   websetId : Hidden, sourceId : Hidden, createdAt : Hidden,
   updatedAt : Hidden]

\* the item x with its dropped fields replaced by those of n
WithNoise(x, n) ==
  [x EXCEPT
     !.properties.v.content = n.content,
     !.evaluations.v =
        [k \in DOMAIN x.evaluations.v |->
           [x.evaluations.v[k] EXCEPT !.reasoning = n.evalReasoning,
                                      !.references = n.evalReferences]],
     !.enrichments.v =
        [k \in DOMAIN x.enrichments.v |->
           [x.enrichments.v[k] EXCEPT
              !.enrichmentId = n.enrichmentId,
              !.status = n.enrichmentStatus,
              !.reasoning = n.enrichmentReasoning,
              !.references = n.enrichmentReferences]],
     !.websetId = n.websetId, !.sourceId = n.sourceId,
     !.createdAt = n.createdAt, !.updatedAt = n.updatedAt]

\* C24: the projection of an item does not depend on properties.content, on
\* the reasoning and references of its evaluations, on the enrichmentId,
\* status, reasoning and references of its enrichments, or on its websetId,
\* sourceId, createdAt and updatedAt: every item that differs from it in
\* those fields only has the same projection
C24_ProjectionIgnoresDropped ==
  fnName = "projectItem" =>
    \A n \in Noises : projectItem(WithNoise(fnIn.item, n)) = fnOut.once

\* C24 witness: an item with a properties bag, an evaluation and an
\* enrichment, so that every dropped field is there, has been projected
C24_Witness ==
  /\ fnName = "projectItem"
  /\ fnIn.item.properties.given
  /\ fnIn.item.properties.v.content = "b"
  /\ fnIn.item.evaluations.v # <<>> /\ fnIn.item.enrichments.v # <<>>
  /\ fnOut.once.evaluations.v = <<[criterion |-> "c", satisfied |-> "yes"]>>
  /\ fnOut.once.name = "Jane"

\* an item passes the filter: it has no evaluations, or one that says 'yes'
Passes(item) ==
  \/ ~item.evaluations.given
  \/ item.evaluations.v = <<>>
  \/ \E e \in Range(item.evaluations.v) : e.satisfied = "yes"

\* C25: filterAndProjectItems returns total = the number of input items,
\* data = the projections, in input order, of exactly the items that pass,
\* included = the length of data and excluded = total - included
C25_FilterCounts ==
  fnName = "filterAndProjectItems" =>
    LET passing == SelectSeq(fnIn.items, Passes) IN
    /\ fnOut.total = Len(fnIn.items)
    /\ fnOut.data = [k \in DOMAIN passing |-> projectItem(passing[k])]
    /\ fnOut.included = Len(fnOut.data)
    /\ fnOut.excluded = fnOut.total - fnOut.included

\* C25 witness: of two listed items the one without a 'yes' is dropped and
\* the one with no evaluations at all is kept
C25_Witness ==
  /\ fnName = "filterAndProjectItems"
  /\ Len(fnIn.items) = 2
  /\ fnIn.items[1].evaluations.given /\ ~Passes(fnIn.items[1])
  /\ fnIn.items[2].evaluations = Some(<<>>)
  /\ fnOut.total = 2 /\ fnOut.included = 1 /\ fnOut.excluded = 1

\* the fields of an item in projected form
ProjectedFields ==
  {"id", "name", "url", "entityType", "description", "evaluations",
   "enrichments"}

\* C23: every element of the items list in the result of lifecycle.harvest
\* is in projected form: it has the fields id, name, url, entityType,
\* description, evaluations and enrichments only, so no raw
\* properties.content, reasoning or references
C23_HarvestItemsProjected ==
  (Harvest /\ Done /\ ret.kind = "value") =>
    \A k \in DOMAIN ret.itemList : DOMAIN ret.itemList[k] = ProjectedFields

\* the niches some classified item of the input falls into
Populated == {c.niche : c \in Range(fnIn.classified)}

\* C26: selectElites with strategy 'diverse' returns exactly one elite per
\* populated niche, that elite has the highest fitnessScore among the
\* classified items of its niche, and the elites are ordered by fitnessScore,
\* highest first
C26_DiverseElites ==
  (fnName = "selectElites" /\ fnIn.strategy = "diverse") =>
    /\ Len(fnOut) = Cardinality(Populated)
    /\ \A n \in Populated :
         Cardinality({k \in DOMAIN fnOut : fnOut[k].niche = n}) = 1
    /\ \A k \in DOMAIN fnOut :
         /\ fnOut[k] \in Range(fnIn.classified)
         /\ \A c \in Range(fnIn.classified) :
              c.niche = fnOut[k].niche =>
                c.fitnessScore <= fnOut[k].fitnessScore
    /\ \A j, k \in DOMAIN fnOut :
         j < k => fnOut[j].fitnessScore >= fnOut[k].fitnessScore

\* C26 witness: two niches are populated, the second item of the first niche
\* is the fitter one and becomes the first elite
C26_Witness ==
  /\ fnName = "selectElites" /\ fnIn.strategy = "diverse"
  /\ Len(fnIn.classified) = 3
  /\ fnIn.classified[1].niche = fnIn.classified[3].niche
  /\ fnIn.classified[1].fitnessScore = 3
  /\ fnIn.classified[3].fitnessScore = 12
  /\ fnIn.classified[2].niche # fnIn.classified[1].niche
  /\ Len(fnOut) = 2 /\ fnOut[1].id = 3 /\ fnOut[2].id = 2

\* the enrichment result is null, an empty array, or starts with an empty
\* string
EmptyResult(res) == ~res.given \/ res.v = <<>> \/ res.v[1] = ""

\* C27: evaluateCondition returns false for every operator and every
\* condition value whenever the enrichment result is null, is an empty
\* array, or has an empty first string
C27_EmptyResultFails ==
  (fnName = "evaluateCondition" /\ EmptyResult(fnIn.enrichmentResult)) =>
    ~fnOut

\* the result of the enrichment a condition names, null when the item has
\* no enrichment of that description
ResultFor(cond, item, enrichmentMap) ==
  LET named == SelectSeq(item.enrichments.v,
                 LAMBDA e : /\ e.enrichmentId \in DOMAIN enrichmentMap
                            /\ enrichmentMap[e.enrichmentId] = cond.enrichment)
  IN IF ~item.enrichments.given \/ named = <<>> THEN NoList
     ELSE named[1].result

\* a shape passes for an item: under 'all' every condition holds, under
\* 'any' at least one
ShapePasses(shape, item, enrichmentMap) ==
  LET holds(cond) ==
        evaluateCondition(cond, ResultFor(cond, item, enrichmentMap))
  IN IF shape.logic = "all"
       THEN \A cond \in Range(shape.conditions) : holds(cond)
       ELSE \E cond \in Range(shape.conditions) : holds(cond)

\* C28: in semantic.cron an item is shaped for a lens iff it passes the
\* pre-filter (no evaluations, or one with satisfied = 'yes') and either no
\* shape is bound to the lens or some shape bound to the lens passes, a
\* shape with logic 'all' needing all of its conditions and a shape with
\* logic 'any' at least one
C28_ShapedIff ==
  fnName = "shapedItems" =>
    LET bound == {s \in Range(fnIn.shapes) : s.lensId = fnIn.lensId}
        shapedIds == {fnOut[k].id : k \in DOMAIN fnOut}
    IN \A item \in Range(fnIn.rawItems) :
         item.id \in shapedIds <=>
           /\ Passes(item)
           /\ \/ bound = {}
              \/ \E s \in bound : ShapePasses(s, item, fnIn.enrichmentMap)

\* C28 witness: the lens has an 'all' shape of two conditions and the config a
\* shape of another lens; the raw item has a 'yes' evaluation and meets one
\* condition of the shape but not the other, so it is not shaped
C28_Witness ==
  /\ fnName = "shapedItems"
  /\ Len(fnIn.rawItems) = 1 /\ Len(fnIn.shapes) = 2
  /\ fnIn.shapes[1].lensId = 1 /\ fnIn.shapes[1].logic = "all"
  /\ Len(fnIn.shapes[1].conditions) = 2
  /\ fnIn.shapes[2].lensId = 2
  /\ fnIn.rawItems[1].evaluations.given
  /\ Passes(fnIn.rawItems[1])
  /\ ShapePasses([fnIn.shapes[1] EXCEPT !.logic = "any"], fnIn.rawItems[1],
                 fnIn.enrichmentMap)
  /\ fnOut = <<>>

\* the last upstream call of the run was a websets.cancel: the workflow
\* ended while, or right after, it reacted to a cancellation it had observed
EndedOnCancel ==
  Done /\ calls # <<>> /\ calls[Len(calls)].op = "websets.cancel"

\* C29: a websets.cancel that throws while a workflow reacts to an observed
\* cancellation does not propagate: the workflow still returns null, and in
\* semantic.cron every remaining created webset is still sent its cancel
C29_CancelFailureSwallowed ==
  EndedOnCancel =>
    /\ ret.kind = "null"
    /\ Cron => \A k \in DOMAIN created : CancelCount(created[k]) >= 1

\* the error pollUntilIdle throws for a paused webset
PausedError == PlainError("Webset was paused unexpectedly")

\* a refetch of pollUntilIdle is answered with status 'paused'
PausedObserved == pc = "p_get" /\ "paused" \in seen' \ seen

\* C30: whenever a refetch inside pollUntilIdle observes the webset status
\* 'paused', pollUntilIdle fails with an error that is not recoverable
\* instead of returning, also when the deadline has passed or the task is
\* cancelled already, and it sends no upstream cancel and writes no progress
\* for that refetch
C30_PausedAlwaysThrows ==
  [][PausedObserved =>
       /\ pc' = "done"
       /\ ret' = PausedError /\ ret'.kind = "throw" /\ ~ret'.recoverable
       /\ calls' = calls
       /\ progress' = progress]_vars

\* C30 witness: the webset was paused when the deadline had passed and the
\* task was cancelled already; the poll threw and sent no cancel
C30_Witness ==
  /\ Done /\ ret = PausedError
  /\ "paused" \in seen
  /\ now >= deadline
  /\ status = "cancelled" /\ cancelledAt = "p_get"
  /\ CancelledIds = <<>>

\* in this step a refetch of pollUntilIdle is answered with a webset that is
\* neither idle nor paused, and the task is cancelled
BusyWhileCancelled ==
  pc = "p_get" /\ isCancelled /\ polled' \in {"pending", "running"}

\* C31: in every pollUntilIdle iteration whose refetch returns a webset that
\* is neither idle nor paused while the task is cancelled, pollUntilIdle
\* invokes the upstream cancel on that webset, once, and returns without
\* sleeping or refetching, also when the deadline has elapsed at that refetch
C31_CancelledPollCancels ==
  [][BusyWhileCancelled =>
       /\ pc' = "p_cancel"
       /\ calls' = Append(calls, [op |-> "websets.cancel", id |-> PolledId])
    ]_vars


\* C32: research.deep tests cancellation before its upstream research call:
\* a task that was cancelled before the workflow reached the dispatch of
\* research.create never creates an upstream research job, and the workflow
\* returns null
C32_DeepChecksBeforeCreate ==
  (Deep /\ cancelledAt = "start") =>
    /\ CallsOf("research.create") = <<>>
    /\ Done => ret.kind = "null"


\* the threshold joinLensResults folded the lens results of fnIn with
FoldThreshold == OrElse(fnIn.joinConfig.nameThreshold, DefaultNameThreshold)

\* the shaped items of fnIn in walking order
FoldItems == FlattenLenses(fnIn.lensResults)

\* entityMap after the first n shaped items of fnIn
EntityMapAfter(n) == EntityMapOf(SubSeq(FoldItems, 1, n), <<>>, FoldThreshold)

\* entry k of map took the item of lens lensId: the lens joins its lens set,
\* the creation time its timestamps, and nothing else of the map changes
FoldedInto(map, k, lensId, si) ==
  [map EXCEPT ![k].lenses = SetAdd(@, lensId),
              ![k].timestamps =
                Append(@, [lensId |-> lensId, createdAt |-> si.createdAt])]

\* C33: an item whose non-empty URL equals the URL of an existing entry is
\* folded into that entry, also when another entry inserted earlier has a
\* name that passes the name threshold
C33_UrlMatchWins ==
  fnName = "joinLensResults" =>
    \A n \in DOMAIN FoldItems :
      \A k \in DOMAIN EntityMapAfter(n - 1) :
        (/\ FoldItems[n].si.url # ""
         /\ EntityMapAfter(n - 1)[k].url = FoldItems[n].si.url)
        => EntityMapAfter(n) =
             FoldedInto(EntityMapAfter(n - 1), k, FoldItems[n].lensId,
                        FoldItems[n].si)


\* no entry of map has the non-empty URL of si
NoUrlMatch(map, si) ==
  \A k \in DOMAIN map : ~(si.url # "" /\ map[k].url # "" /\ si.url = map[k].url)

\* some entry of map has a name whose similarity to si's is the threshold
NameAtThreshold(map, si, threshold) ==
  \E k \in DOMAIN map :
    /\ si.name # "" /\ map[k].entity # ""
    /\ diceCoefficient(si.name, map[k].entity) = threshold

\* C34: an item without URL match whose name similarity to an entry equals
\* nameThreshold exactly is folded into an entry (the comparison is >=), so
\* identical names merge even when nameThreshold = 1
C34_EqualSimilarityFolds ==
  fnName = "joinLensResults" =>
    \A n \in DOMAIN FoldItems :
      (/\ NoUrlMatch(EntityMapAfter(n - 1), FoldItems[n].si)
       /\ NameAtThreshold(EntityMapAfter(n - 1), FoldItems[n].si,
                          FoldThreshold))
      => \E k \in DOMAIN EntityMapAfter(n - 1) :
           EntityMapAfter(n) =
             FoldedInto(EntityMapAfter(n - 1), k, FoldItems[n].lensId,
                        FoldItems[n].si)


Min(a, b) == IF a <= b THEN a ELSE b

\* C35: collectItems with a cap returns the first min(cap, n) items of a
\* listing of n items, in order, for every cap >= 0, and consumes no item
\* beyond them (so a harvest with count = c, whose cap is 2c, returns at
\* most 2c items, and none when c = 0)
C35_CollectFirstMin ==
  (fnName = "collectItems" /\ fnIn.cap.given) =>
    /\ fnOut.items =
         SubSeq(fnIn.stream, 1, Min(fnIn.cap.v, Len(fnIn.stream)))
    /\ fnOut.consumed = Min(fnIn.cap.v, Len(fnIn.stream))


\* the text of a duration of D days, H hours and M minutes: the non-zero
\* parts in the order days, hours, minutes, one space between, '0m' for none
DurationText(D, H, M) ==
  IF D = 0 /\ H = 0 /\ M = 0 THEN "0m"
  ELSE LET d == IF D # 0 THEN <<ToString(D) \o "d">> ELSE <<>>
           h == IF H # 0 THEN <<ToString(H) \o "h">> ELSE <<>>
           mm == IF M # 0 THEN <<ToString(M) \o "m">> ELSE <<>>
           ps == d \o h \o mm
       IN IF Len(ps) = 1 THEN ps[1]
          ELSE IF Len(ps) = 2 THEN ps[1] \o " " \o ps[2]
          ELSE ps[1] \o " " \o ps[2] \o " " \o ps[3]

\* C36: for every ms >= 0, timeSinceLastEval is made of the parts 'Dd', 'Hh'
\* and 'Mm' in that order with D*1440 + H*60 + M = floor(ms / 60000), H < 24
\* and M < 60; only non-zero parts are listed, joined by one space, and the
\* text is '0m' when all three are zero
C36_DurationParts ==
  fnName = "formatDuration" =>
    \E D \in 0..(fnIn.ms \div 60000) : \E H \in 0..23 : \E M \in 0..59 :
      /\ D * 1440 + H * 60 + M = fnIn.ms \div 60000
      /\ fnOut = DurationText(D, H, M)

C36_Witness ==
  fnName = "formatDuration" /\ fnIn.ms = 90119999 /\ fnOut = "1d 1h 1m"


\* C37: in lifecycle.harvest and semantic.cron no upstream websets.create is
\* started once the task is cancelled: the cancellation test and the create
\* it guards lie in one step with no suspension between them, so a cancelled
\* semantic.cron run creates no webset for any later lens
C37_NoCreateAfterCancel ==
  [][((Harvest \/ Cron) /\ isCancelled) =>
       CallsOf("websets.create")' = CallsOf("websets.create")]_vars

\* a semantic.cron run over two search lenses was cancelled while the create
\* of the first was in flight, and has ended with that one create
C37_Witness ==
  /\ Cron /\ Done /\ isCancelled /\ cancelledAt = "c_create"
  /\ args.lenses = <<"query", "query">>
  /\ Len(CallsOf("websets.create")) = 1


\* this step ends a call of pollUntilIdle: the workflow leaves the poll, or
\* its caller starts the poll of the next lens
PollEnds ==
  /\ pc \in {"p_get", "p_cancel"}
  /\ pc' \notin {"p_get", "p_sleep", "p_cancel"} \/ idx' # idx

\* the four ends of a call: the webset is idle, the deadline has passed
\* (timedOut = true), the task is cancelled and the upstream cancel was sent,
\* the webset is paused (thrown)
EndsIdle == pc = "p_get" /\ polled' = "idle" /\ ret'.kind # "throw"

EndsTimedOut ==
  /\ pc = "p_get" /\ polled' \in {"pending", "running"}
  /\ now >= deadline /\ pollTimedOut' /\ ret'.kind # "throw"

EndsOnCancel == pc = "p_cancel" /\ isCancelled /\ ret'.kind # "throw"

EndsPaused == pc = "p_get" /\ polled' = "paused" /\ ret' = PausedError

\* no two of the four ends happen at once
OneEndOnly ==
  /\ ~(EndsIdle /\ EndsTimedOut) /\ ~(EndsIdle /\ EndsOnCancel)
  /\ ~(EndsIdle /\ EndsPaused) /\ ~(EndsTimedOut /\ EndsOnCancel)
  /\ ~(EndsTimedOut /\ EndsPaused) /\ ~(EndsOnCancel /\ EndsPaused)

\* polling comes to an end: the workflow leaves pollUntilIdle (in
\* semantic.cron, the poll of its last search lens)
PollTerminates ==
  (pc \in {"p_get", "p_sleep", "p_cancel"})
    ~> (pc \notin {"p_get", "p_sleep", "p_cancel"})

\* how many refetches the polls have sent for the webset id
GetCount(id) ==
  Len(SelectSeq(calls, LAMBDA c : c.op = "websets.get" /\ c.id = id))

\* a created webset is refetched once per tick of the clock up to the
\* deadline of its poll, the refetch at the deadline being the last
GetsWithinDeadline ==
  \A k \in DOMAIN created : GetCount(created[k]) <= args.timeout + 1

\* the upstream cancel that pollUntilIdle sent for a cancelled task rejects
PollCancelRejected == pc = "p_cancel" /\ ret' = UpstreamError

ProgressInRange == 0 <= progress.completed /\ progress.completed <= progress.total

\* a step of the run: the total, once written, stays; completed does not
\* decrease; completed = total is written only together with a result
ProgressStep ==
  /\ progress.total # 0 => progress'.total = progress.total
  /\ progress'.completed >= progress.completed
  /\ (progress' # progress /\ progress'.completed = progress'.total)
       => ret'.kind = "value"

\* C39: throughout a run of lifecycle.harvest, research.deep or semantic.cron
\* the progress record satisfies 0 <= completed <= total, the total stays
\* constant, completed never decreases from one update to the next (those of
\* pollUntilIdle included), and completed = total is written only on the
\* path that returns a result
C39_ProgressMonotone ==
  []ProgressInRange /\ [][ProgressStep]_vars

\* a semantic.cron run whose poll slept at least once wrote its last update
\* and returned its result
C39_Witness ==
  /\ Cron /\ Done /\ now > 0 /\ ret.kind = "value"
  /\ progress = Progress("complete", CronTotal, CronTotal)


\* C40: while joinLensResults folds shaped items (entity modes) no existing
\* entry is replaced or dropped: once all items are processed, and before
\* the overlap and temporal filters, the lens id of every shaped item is in
\* the lens set of some entry, also when nameThreshold >= 1 and two items
\* without URL from different lenses carry the same name
C40_NoEntryLost ==
  fnName = "joinLensResults" =>
    \A n \in DOMAIN FoldItems :
      \E k \in DOMAIN EntityMapAfter(Len(FoldItems)) :
        FoldItems[n].lensId \in Range(EntityMapAfter(Len(FoldItems))[k].lenses)

====
